---- MODULE Spec2Model ----
(***************************************************************************)
(* Model of the document pipeline of project1.                             *)
(*                                                                         *)
(* Part 1: DocumentIndex (src/project1/indexer.py).                        *)
(* Part 2: MarkdownBodyExtractor (src/project1/body_extraction.py),        *)
(*         MarkdownHeadingParser (src/project1/id_extraction.py) and       *)
(*         ReferenceDetector (src/project1/reference_detection.py).        *)
(* Part 3: MarkdownParser (src/project1/markdown_parser.py) and DocElement *)
(*         (src/project1/doc_element.py).                                  *)
(* Part 4: PollingFileWatcher (src/project1/file_watching.py).             *)
(* Part 5: PrivilegedRequest (src/project1/privileged_request.py).         *)
(*                                                                         *)
(* Python strings are sequences of one-character strings, so that lower(), *)
(* slicing, substring containment and the regular expression of            *)
(* _normalize_for_search are computed and not assumed.  A Python dict is a *)
(* function whose DOMAIN is the set of keys present; a defaultdict access  *)
(* that creates a key is modelled as creating it.                          *)
(***************************************************************************)
EXTENDS Integers, Sequences, FiniteSets, TLC

VARIABLES
    elements,          \* DocumentIndex._elements          id -> DocElement
    file_elements,     \* DocumentIndex._file_elements     file -> {id}
    references,        \* DocumentIndex._references        id -> {referenced id}
    backlinks,         \* DocumentIndex._backlinks         id -> {referencing id}
    title_index,       \* DocumentIndex._title_index       word -> {id}
    id_index,          \* DocumentIndex._id_index          normalized id -> id
    partial_id_index,  \* DocumentIndex._partial_id_index  lowered prefix -> {id}
    last_call,         \* the last public method called on the index
    returned,          \* what that call returned
    \* find_circular_references while it runs
    pc,                \* "idle", "loop" (the for loop of line 415), "done"
    visited,           \* its local visited
    rec_stack,         \* its local rec_stack
    cycles,            \* its local cycles
    stack,             \* the active calls of dfs, innermost last
    pending,           \* the elements the for loop of line 415 has not reached
    started,           \* id -> how often dfs went past its two guards for id
    \* the objects of the parsing pipeline
    extractor,         \* MarkdownBodyExtractor: current_text, current_lines, heading_boundaries
    parser,            \* MarkdownHeadingParser: validate_uniqueness, validator.seen_ids
    document,          \* the text the caller of the pipeline holds
    \* assembly
    markdown_parser,   \* MarkdownParser: file_path, file_enum
    doc_element,       \* a DocElement a caller holds
    data,              \* the dict a caller got from DocElement.to_dict
    \* file watching
    watcher,           \* PollingFileWatcher: its fields, its lock, its thread
    fs,                \* the file system: path -> state of the file there
    threads,           \* where each thread is in the watcher's code
    emitted,           \* the events handed to the handlers since the last scan began
    \* privileged requests
    request            \* a PrivilegedRequest

indexVars == <<elements, file_elements, references, backlinks, title_index,
               id_index, partial_id_index>>

cyclesVars == <<pc, visited, rec_stack, cycles, stack, pending, started>>

parserVars == <<extractor, parser, document>>

assemblyVars == <<markdown_parser, doc_element, data>>

watcherVars == <<watcher, fs, threads, emitted>>

requestVars == <<request>>

moreVars == <<assemblyVars, watcherVars, requestVars>>

vars == <<elements, file_elements, references, backlinks, title_index,
          id_index, partial_id_index, last_call, returned,
          pc, visited, rec_stack, cycles, stack, pending, started,
          extractor, parser, document,
          markdown_parser, doc_element, data,
          watcher, fs, threads, emitted, request>>

----------------------------------------------------------------------------
(* Python values *)

None == "None"

EmptyDict == [k \in {} |-> {}]

\* d.get(k, default)
Get(d, k, default) == IF k \in DOMAIN d THEN d[k] ELSE default

\* d[k] = v
Put(d, k, v) == [x \in (DOMAIN d) \cup {k} |-> IF x = k THEN v ELSE d[x]]

\* del d[k]
Del(d, k) == [x \in (DOMAIN d) \ {k} |-> d[x]]

\* set(list)
Range(s) == {s[i] : i \in 1..Len(s)}

----------------------------------------------------------------------------
(* Strings *)

UpperChars == <<"A", "B", "C", "T", "D", "I", "M", "P", "R", "U", "X", "E", "F", "N", "S",
               "G", "H", "K", "L", "O", "W">>
LowerChars == <<"a", "b", "c", "t", "d", "i", "m", "p", "r", "u", "x", "e", "f", "n", "s",
               "g", "h", "k", "l", "o", "w">>
DigitChars == {"0", "1", "2"}
SpaceChars == {" ", "\t", "\n"}

\* str.lower() on one character
LowerChar(c) ==
    IF \E i \in 1..Len(UpperChars) : UpperChars[i] = c
    THEN LowerChars[CHOOSE i \in 1..Len(UpperChars) : UpperChars[i] = c]
    ELSE c

\* str.lower()
Lower(s) == [i \in 1..Len(s) |-> LowerChar(s[i])]

\* \w of the re module: letters, digits and the underscore
IsWordChar(c) ==
    \/ c \in Range(UpperChars)
    \/ c \in Range(LowerChars)
    \/ c \in DigitChars
    \/ c = "_"

\* \s of the re module
IsSpaceChar(c) == c \in SpaceChars

\* str.split(): the maximal runs of non-whitespace characters, in order
RECURSIVE SplitFrom(_, _, _)
SplitFrom(s, i, word) ==
    IF i > Len(s)
    THEN IF word = <<>> THEN <<>> ELSE <<word>>
    ELSE IF IsSpaceChar(s[i])
         THEN IF word = <<>>
              THEN SplitFrom(s, i + 1, <<>>)
              ELSE <<word>> \o SplitFrom(s, i + 1, <<>>)
         ELSE SplitFrom(s, i + 1, Append(word, s[i]))

Split(s) == SplitFrom(s, 1, <<>>)

\* ' '.join(words)
RECURSIVE Join(_)
Join(words) ==
    IF words = <<>> THEN <<>>
    ELSE IF Len(words) = 1 THEN words[1]
    ELSE words[1] \o <<" ">> \o Join(Tail(words))

\* str.strip()
Strip(s) ==
    LET keep == {i \in 1..Len(s) : ~IsSpaceChar(s[i])}
    IN  IF keep = {} THEN <<>>
        ELSE LET lo == CHOOSE i \in keep : \A j \in keep : i <= j
                 hi == CHOOSE i \in keep : \A j \in keep : i >= j
             IN  SubSeq(s, lo, hi)

\* needle in haystack (substring containment)
Contains(haystack, needle) ==
    \E i \in 0..(Len(haystack) - Len(needle)) :
        SubSeq(haystack, i + 1, i + Len(needle)) = needle

\* DocumentIndex._normalize_for_search
normalize_for_search(text) ==
    LET lowered == Lower(text)
        subbed  == [i \in 1..Len(lowered) |->
                       IF IsWordChar(lowered[i]) \/ IsSpaceChar(lowered[i])
                          \/ lowered[i] = ":"
                       THEN lowered[i] ELSE " "]
    IN  Join(Split(subbed))

----------------------------------------------------------------------------
(* DocumentIndex: the object's fields as one record, and its methods as     *)
(* operators from the fields before a call to the fields after it.          *)

\* the index object as a record of its fields
Self ==
    [elements |-> elements, file_elements |-> file_elements,
     references |-> references, backlinks |-> backlinks,
     title_index |-> title_index, id_index |-> id_index,
     partial_id_index |-> partial_id_index]

\* DocumentIndex.__init__
NewIndex ==
    [elements |-> EmptyDict, file_elements |-> EmptyDict,
     references |-> EmptyDict, backlinks |-> EmptyDict,
     title_index |-> EmptyDict, id_index |-> EmptyDict,
     partial_id_index |-> EmptyDict]

\* s.discard(x) on every set d[k], k in keys, of a defaultdict(set): a missing
\* key is created with the empty set
DiscardAt(d, keys, x) ==
    [k \in (DOMAIN d) \cup keys |->
        IF k \in keys THEN Get(d, k, {}) \ {x} ELSE d[k]]

\* d[k].discard(x); if not d[k]: del d[k]   for every k in keys
DiscardAndPruneAt(d, keys, x) ==
    LET after == DiscardAt(d, keys, x)
    IN  [k \in {j \in DOMAIN after : ~(j \in keys /\ after[j] = {})} |-> after[k]]

\* d[k].add(x) for every k in keys, of a defaultdict(set)
AddAt(d, keys, x) ==
    [k \in (DOMAIN d) \cup keys |->
        IF k \in keys THEN Get(d, k, {}) \cup {x} ELSE d[k]]

\* _add_element_references recording backlinks on indexed targets only
add_element_references_to_indexed_targets(D, element) ==
    LET element_id == element.id
        old_refs   == Get(D.references, element_id, {})
        cleared    == DiscardAt(D.backlinks, old_refs, element_id)
        new_refs   == Range(element.refs)
    IN  [D EXCEPT !.references = Put(D.references, element_id, new_refs),
                  !.backlinks  = AddAt(cleared, new_refs \cap DOMAIN D.elements,
                                       element_id)]

\* DocumentIndex._add_element_references
add_element_references(D, element) ==
    LET element_id == element.id
        old_refs   == Get(D.references, element_id, {})
        cleared    == DiscardAt(D.backlinks, old_refs, element_id)
        new_refs   == Range(element.refs)
    IN  [D EXCEPT !.references = Put(D.references, element_id, new_refs),
                  !.backlinks  = AddAt(cleared, new_refs, element_id)]

\* _remove_element_references without its first loop: the backlink entries on
\* the elements this one referenced stay
remove_element_references_keeps_outgoing(D, element_id) ==
    LET refs1     == IF element_id \in DOMAIN D.references
                     THEN Del(D.references, element_id) ELSE D.references
        incoming  == element_id \in DOMAIN D.backlinks
        refs2     == IF incoming
                     THEN DiscardAt(refs1, D.backlinks[element_id], element_id)
                     ELSE refs1
        back2     == IF incoming THEN Del(D.backlinks, element_id) ELSE D.backlinks
    IN  [D EXCEPT !.references = refs2, !.backlinks = back2]

\* _remove_element_references without its last loop: the forward entries on
\* the elements that referenced this one stay
remove_element_references_keeps_incoming(D, element_id) ==
    LET refs      == Get(D.references, element_id, {})
        back1     == DiscardAndPruneAt(D.backlinks, refs, element_id)
        refs1     == IF element_id \in DOMAIN D.references
                     THEN Del(D.references, element_id) ELSE D.references
        back2     == IF element_id \in DOMAIN back1 THEN Del(back1, element_id) ELSE back1
    IN  [D EXCEPT !.references = refs1, !.backlinks = back2]

\* DocumentIndex._remove_element_references
remove_element_references(D, element_id) ==
    LET refs      == Get(D.references, element_id, {})
        \* outgoing references
        back1     == DiscardAndPruneAt(D.backlinks, refs, element_id)
        refs1     == IF element_id \in DOMAIN D.references
                     THEN Del(D.references, element_id) ELSE D.references
        \* incoming references (backlinks to this element)
        incoming  == element_id \in DOMAIN back1
        refs2     == IF incoming
                     THEN DiscardAt(refs1, back1[element_id], element_id)
                     ELSE refs1
        back2     == IF incoming THEN Del(back1, element_id) ELSE back1
    IN  [D EXCEPT !.references = refs2, !.backlinks = back2]

\* element_id[:i].lower() for i in range(2, len(element_id) + 1)
PartialKeys(element_id) ==
    {Lower(SubSeq(element_id, 1, i)) : i \in 2..Len(element_id)}

\* the words of a title that the title index is keyed by
TitleWords(title) == Range(Split(normalize_for_search(title)))

\* DocumentIndex._add_to_search_index
add_to_search_index(D, element) ==
    LET element_id    == element.id
        id_normalized == normalize_for_search(element_id)
    IN  [D EXCEPT
           !.id_index = Put(D.id_index, id_normalized, element_id),
           !.partial_id_index =
               AddAt(D.partial_id_index, PartialKeys(element_id), element_id),
           !.title_index =
               AddAt(D.title_index, TitleWords(element.title), element_id)]

\* _remove_from_search_index leaving the title index as it is
remove_from_search_index_keeping_title_words(D, element) ==
    LET element_id    == element.id
        id_normalized == normalize_for_search(element_id)
    IN  [D EXCEPT
           !.id_index = IF id_normalized \in DOMAIN D.id_index
                        THEN Del(D.id_index, id_normalized) ELSE D.id_index,
           !.partial_id_index =
               DiscardAndPruneAt(D.partial_id_index, PartialKeys(element_id),
                                 element_id)]

\* DocumentIndex._remove_from_search_index
remove_from_search_index(D, element) ==
    LET element_id    == element.id
        id_normalized == normalize_for_search(element_id)
    IN  [D EXCEPT
           !.id_index = IF id_normalized \in DOMAIN D.id_index
                        THEN Del(D.id_index, id_normalized) ELSE D.id_index,
           !.partial_id_index =
               DiscardAndPruneAt(D.partial_id_index, PartialKeys(element_id),
                                 element_id),
           !.title_index =
               DiscardAndPruneAt(D.title_index,
                                 TitleWords(element.title) \cap DOMAIN D.title_index,
                                 element_id)]

\* remove_element without the deletion of a file bucket that became empty
remove_element_keeping_file_bucket(D, element_id) ==
    IF element_id \notin DOMAIN D.elements
    THEN [index |-> D, returned |-> FALSE]
    ELSE LET element  == D.elements[element_id]
             file_key == element.file
             D1 == [D EXCEPT
                      !.elements = Del(D.elements, element_id),
                      !.file_elements =
                          DiscardAt(D.file_elements, {file_key}, element_id)]
             D2 == remove_element_references(D1, element_id)
             D3 == remove_from_search_index(D2, element)
         IN  [index |-> D3, returned |-> TRUE]

\* DocumentIndex.remove_element: the fields afterwards and the value returned
remove_element(D, element_id) ==
    IF element_id \notin DOMAIN D.elements
    THEN [index |-> D, returned |-> FALSE]
    ELSE LET element  == D.elements[element_id]
             file_key == element.file
             D1 == [D EXCEPT
                      !.elements = Del(D.elements, element_id),
                      !.file_elements =
                          DiscardAndPruneAt(D.file_elements, {file_key}, element_id)]
             D2 == remove_element_references(D1, element_id)
             D3 == remove_from_search_index(D2, element)
         IN  [index |-> D3, returned |-> TRUE]

\* add_element without the removal of the element already indexed under the ID
add_element_without_remove(D, element) ==
    LET element_id == element.id
        D1 == [D EXCEPT
                 !.elements = Put(D.elements, element_id, element),
                 !.file_elements = AddAt(D.file_elements, {element.file}, element_id)]
        D2 == add_element_references(D1, element)
    IN  add_to_search_index(D2, element)

\* DocumentIndex.add_element
add_element(D, element) ==
    LET element_id == element.id
        D0 == IF element_id \in DOMAIN D.elements
              THEN remove_element(D, element_id).index ELSE D
        D1 == [D0 EXCEPT
                 !.elements = Put(D0.elements, element_id, element),
                 !.file_elements = AddAt(D0.file_elements, {element.file}, element_id)]
        D2 == add_element_references(D1, element)
    IN  add_to_search_index(D2, element)

\* clear without self._backlinks.clear()
clear_keeps_backlinks(D) ==
    [D EXCEPT !.elements = EmptyDict, !.file_elements = EmptyDict,
              !.references = EmptyDict,
              !.title_index = EmptyDict, !.id_index = EmptyDict,
              !.partial_id_index = EmptyDict]

\* DocumentIndex.clear
clear(D) ==
    [D EXCEPT !.elements = EmptyDict, !.file_elements = EmptyDict,
              !.references = EmptyDict, !.backlinks = EmptyDict,
              !.title_index = EmptyDict, !.id_index = EmptyDict,
              !.partial_id_index = EmptyDict]

\* DocumentIndex.get_element
get_element(D, element_id) == Get(D.elements, element_id, None)

\* DocumentIndex.has_element
has_element(D, element_id) == element_id \in DOMAIN D.elements

\* DocumentIndex.get_elements_by_file, as the set of the IDs of the list
get_elements_by_file(D, file) ==
    {eid \in Get(D.file_elements, file, {}) : eid \in DOMAIN D.elements}

\* DocumentIndex.get_references, as the set of the returned list
get_references(D, element_id) == Get(D.references, element_id, {})

\* DocumentIndex.get_backlinks, as the set of the returned list
get_backlinks(D, element_id) == Get(D.backlinks, element_id, {})

\* DocumentIndex.get_element_count
get_element_count(D) == Cardinality(DOMAIN D.elements)

\* DocumentIndex.get_reference_count
RECURSIVE SumSizes(_, _)
SumSizes(d, keys) ==
    IF keys = {} THEN 0
    ELSE LET k == CHOOSE x \in keys : TRUE
         IN  Cardinality(d[k]) + SumSizes(d, keys \ {k})

get_reference_count(D) == SumSizes(D.references, DOMAIN D.references)

\* DocumentIndex.validate_references()['broken_references']: the entry
\* "element_id -> ref_id" is the pair <<element_id, ref_id>>
broken_references(D) ==
    UNION {{<<element_id, ref_id>> : ref_id \in D.references[element_id] \ DOMAIN D.elements} :
              element_id \in DOMAIN D.references}

\* DocumentIndex.validate_references()['missing_backlinks']: the entry
\* "ref_id <- element_id" is the pair <<ref_id, element_id>>
missing_backlinks(D) ==
    UNION {{<<ref_id, element_id>> :
                ref_id \in {r \in D.references[element_id] :
                               /\ r \in DOMAIN D.elements
                               /\ element_id \notin Get(D.backlinks, r, {})}} :
              element_id \in DOMAIN D.references}

\* the references of a dict of sets that name no indexed element
OrphanedIn(D, keys) ==
    SumSizes([k \in keys |-> D.references[k] \ DOMAIN D.elements], keys)

\* get_statistics with total_backlinks summed over the indexed IDs only
get_statistics_backlinks_of_indexed(D) ==
    [total_elements        |-> Cardinality(DOMAIN D.elements),
     elements_by_file      |->
         [f \in {D.elements[e].file : e \in DOMAIN D.elements} |->
             Cardinality({e \in DOMAIN D.elements : D.elements[e].file = f})],
     total_references      |-> SumSizes(D.references, DOMAIN D.references),
     total_backlinks       |->
         SumSizes(D.backlinks, DOMAIN D.backlinks \cap DOMAIN D.elements),
     orphaned_references   |-> OrphanedIn(D, DOMAIN D.references),
     elements_without_refs |->
         Cardinality({e \in DOMAIN D.elements : Get(D.references, e, {}) = {}}),
     search_index_size     |-> Cardinality(DOMAIN D.title_index)]

\* DocumentIndex.get_statistics (elements_by_kind and last_updated left out:
\* the elements handed to the index carry no kind here, and no clock is kept)
get_statistics(D) ==
    [total_elements        |-> Cardinality(DOMAIN D.elements),
     elements_by_file      |->
         [f \in {D.elements[e].file : e \in DOMAIN D.elements} |->
             Cardinality({e \in DOMAIN D.elements : D.elements[e].file = f})],
     total_references      |-> SumSizes(D.references, DOMAIN D.references),
     total_backlinks       |-> SumSizes(D.backlinks, DOMAIN D.backlinks),
     orphaned_references   |-> OrphanedIn(D, DOMAIN D.references),
     elements_without_refs |->
         Cardinality({e \in DOMAIN D.elements : Get(D.references, e, {}) = {}}),
     search_index_size     |-> Cardinality(DOMAIN D.title_index)]

----------------------------------------------------------------------------
(* DocumentIndex.search *)

\* the default of search's limit parameter
DefaultLimit == 10

\* match_score, a float in the source, as the exact fraction num/den
Score(num, den) == [num |-> num, den |-> den]

ScoreLess(a, b) == a.num * b.den < b.num * a.den

ScoreEq(a, b) == a.num * b.den = b.num * a.den

\* SearchMatch
SearchMatch(element_id, element_title, match_type, match_score, matched_text) ==
    [element_id |-> element_id, element_title |-> element_title,
     match_type |-> match_type, match_score |-> match_score,
     matched_text |-> matched_text]

\* every order in which a for loop may visit a set (or the keys of a dict)
RECURSIVE Orders(_)
Orders(S) ==
    IF S = {} THEN {<<>>}
    ELSE UNION {{<<x>> \o rest : rest \in Orders(S \ {x})} : x \in S}

\* lines 243-253: the exact ID match
ExactId(D, query_normalized) == Get(D.id_index, query_normalized, None)

ExactMatches(D, query_normalized) ==
    LET exact_id == ExactId(D, query_normalized)
    IN  IF exact_id # None /\ exact_id \in DOMAIN D.elements
        THEN <<SearchMatch(exact_id, D.elements[exact_id].title, "id_exact",
                           Score(1, 1), exact_id)>>
        ELSE <<>>

\* lines 258-269: the matches appended for one key of _partial_id_index, its
\* elements visited in the given order
RECURSIVE PartialMatchesOf(_, _, _, _)
PartialMatchesOf(D, query_normalized, partial_id, order) ==
    IF order = <<>> THEN <<>>
    ELSE LET element_id == Head(order)
             rest == PartialMatchesOf(D, query_normalized, partial_id, Tail(order))
         IN  IF /\ element_id \in DOMAIN D.elements
                /\ element_id # ExactId(D, query_normalized)
             THEN <<SearchMatch(element_id, D.elements[element_id].title,
                                "id_partial",
                                Score(9 * Len(query_normalized), 10 * Len(partial_id)),
                                element_id)>> \o rest
             ELSE rest

\* lines 256-257: the keys of _partial_id_index the query is a proper part of
PartialKeysMatching(D, query_normalized) ==
    {partial_id \in DOMAIN D.partial_id_index :
        Contains(partial_id, query_normalized) /\ query_normalized # partial_id}

\* lines 255-269: every list the partial ID loop can append, over the orders of
\* the keys and of the elements of each key
RECURSIVE PartialMatches(_, _, _)
PartialMatches(D, query_normalized, keys) ==
    IF keys = {} THEN {<<>>}
    ELSE UNION {UNION {{PartialMatchesOf(D, query_normalized, partial_id, order) \o rest :
                           rest \in PartialMatches(D, query_normalized, keys \ {partial_id})} :
                       order \in Orders(D.partial_id_index[partial_id])} :
                partial_id \in keys}

\* lines 279-299: the match of one element found through a title word
TitleMatch(D, query_normalized, element_id) ==
    LET element == D.elements[element_id]
        element_title_norm == normalize_for_search(element.title)
        query_words == Split(query_normalized)
        title_words == Split(element_title_norm)
        matching_words ==
            Cardinality({i \in 1..Len(query_words) : query_words[i] \in Range(title_words)})
        longest == IF Len(query_words) >= Len(title_words)
                   THEN Len(query_words) ELSE Len(title_words)
    IN  IF element_title_norm = query_normalized
        THEN SearchMatch(element_id, element.title, "title_exact",
                         Score(95 * 8, 100 * 10), element.title)
        ELSE SearchMatch(element_id, element.title, "title_partial",
                         Score(matching_words * 8, longest * 10), element.title)

\* lines 275-299: the elements of one title word visited in the given order,
\* an element already in matches skipped
RECURSIVE AppendTitleMatches(_, _, _, _)
AppendTitleMatches(D, query_normalized, matches, order) ==
    IF order = <<>> THEN matches
    ELSE LET element_id == Head(order)
             seen == \E i \in 1..Len(matches) : matches[i].element_id = element_id
             next == IF element_id \in DOMAIN D.elements /\ ~seen
                     THEN Append(matches, TitleMatch(D, query_normalized, element_id))
                     ELSE matches
         IN  AppendTitleMatches(D, query_normalized, next, Tail(order))

\* lines 271-299: every list the title loop can leave in matches
RECURSIVE TitleMatches(_, _, _, _)
TitleMatches(D, query_normalized, matches, words) ==
    IF words = <<>> THEN {matches}
    ELSE LET word == Head(words)
             ids == IF word \in DOMAIN D.title_index THEN D.title_index[word] ELSE {}
         IN  UNION {TitleMatches(D, query_normalized,
                                 AppendTitleMatches(D, query_normalized, matches, order),
                                 Tail(words)) :
                    order \in Orders(ids)}

\* matches.sort(key=lambda m: m.match_score, reverse=True): a stable sort
RECURSIVE InsertByScore(_, _)
InsertByScore(sorted, m) ==
    IF sorted = <<>> THEN <<m>>
    ELSE IF ScoreLess(Head(sorted).match_score, m.match_score)
         THEN <<m>> \o sorted
         ELSE <<Head(sorted)>> \o InsertByScore(Tail(sorted), m)

RECURSIVE SortByScore(_, _)
SortByScore(sorted, matches) ==
    IF matches = <<>> THEN sorted
    ELSE SortByScore(InsertByScore(sorted, Head(matches)), Tail(matches))

\* matches[:limit], limit >= 0
Truncate(matches, limit) ==
    SubSeq(matches, 1, IF Len(matches) < limit THEN Len(matches) ELSE limit)

\* DocumentIndex.search: the set of the lists it can return (the order in which
\* dicts and sets are iterated is not fixed by the index)
search(D, query, limit) ==
    IF Strip(query) = <<>> THEN {<<>>}
    ELSE LET query_normalized == normalize_for_search(Strip(query))
             exact == ExactMatches(D, query_normalized)
             withPartial ==
                 {exact \o partial :
                     partial \in PartialMatches(D, query_normalized,
                                     PartialKeysMatching(D, query_normalized))}
             all == UNION {TitleMatches(D, query_normalized, matches,
                                        Split(query_normalized)) :
                           matches \in withPartial}
         IN  {Truncate(SortByScore(<<>>, matches), limit) : matches \in all}

----------------------------------------------------------------------------
(* The elements handed to the index *)

\* the longest refs list of an element handed to the index
MaxRefs == 2

IdUpper  == <<"C", ":", "a">>
IdLower  == <<"c", ":", "a">>
IdLonger == <<"C", ":", "a", "b">>

IdTask   == <<"T", ":", "1">>

TitleOne == <<"a", "b">>
TitleTwo == <<"B", " ", "a", "b">>

\* File.value of two members of the File enum
FileDesign == "software-design"
FilePlan   == "development-plan"

\* one list for a set of IDs
RECURSIVE ListOf(_)
ListOf(S) ==
    IF S = {} THEN <<>>
    ELSE LET x == CHOOSE y \in S : TRUE IN <<x>> \o ListOf(S \ {x})

\* refs lists over a set of targets: the index reads element.refs through
\* set(element.refs) only, so one list per set of targets is drawn
RefLists(targets) ==
    {ListOf(S) : S \in {T \in SUBSET targets : Cardinality(T) <= MaxRefs}}

\* DocElement (the fields the index reads; backlinks is [] as assembled)
DocElements(ids, titles, files, reflists) ==
    [id : ids, title : titles, file : files, refs : reflists, backlinks : {<<>>}]

\* reference-graph runs: three IDs referring to each other, one title, one file
GraphIds == {IdUpper, IdLonger, IdTask}
GraphElements ==
    DocElements(GraphIds, {TitleOne}, {FileDesign}, RefLists(GraphIds))

\* re-indexing runs: two IDs whose title, file and refs all vary
ReplaceIds == {IdUpper, IdLonger}
ReplaceElements ==
    DocElements(ReplaceIds, {TitleOne, TitleTwo}, {FileDesign, FilePlan},
                RefLists(ReplaceIds))

\* search runs: IDs that differ in letter case only or extend one another,
\* titles sharing a word, no refs
SearchIds == {IdUpper, IdLower, IdLonger}
SearchElements ==
    DocElements(SearchIds, {TitleOne, TitleTwo}, {FileDesign}, {<<>>})

\* queries: IDs, a prefix of IDs, title words, whitespace
SearchQueries ==
    SearchIds \cup {<<"C", ":">>, <<"a", "b">>, <<"b">>, <<" ">>}

SearchLimits == {2, DefaultLimit}

\* every ID and file a run can name
ElementIds == GraphIds \cup ReplaceIds \cup SearchIds
Files == {FileDesign, FilePlan}

----------------------------------------------------------------------------
(* The index as a state machine: one action per public mutating method *)

SetIndex(D) ==
    /\ elements' = D.elements
    /\ file_elements' = D.file_elements
    /\ references' = D.references
    /\ backlinks' = D.backlinks
    /\ title_index' = D.title_index
    /\ id_index' = D.id_index
    /\ partial_id_index' = D.partial_id_index

\* the fields in which the element handed to add_element differs from the
\* element indexed under its ID ({"id"} when the ID is not indexed)
Changed(D, e) ==
    IF e.id \notin DOMAIN D.elements THEN {"id"}
    ELSE LET old == D.elements[e.id]
         IN  {f \in {"title", "file", "refs"} :
                \/ f = "title" /\ old.title # e.title
                \/ f = "file" /\ old.file # e.file
                \/ f = "refs" /\ Range(old.refs) # Range(e.refs)}

\* the record of a call: the method, its argument, the number of elements
\* indexed before it, and Changed for add_element
Call(op, arg, changed) ==
    [op |-> op, arg |-> arg, before |-> get_element_count(Self), changed |-> changed]

\* MarkdownBodyExtractor.__init__
NewExtractor ==
    [current_text |-> <<>>, current_lines |-> <<>>, heading_boundaries |-> <<>>]

\* MarkdownHeadingParser.__init__ and the IDValidator.__init__ it calls
NewParser(validate_uniqueness) ==
    [validate_uniqueness |-> validate_uniqueness, seen_ids |-> {}]

\* the pipeline objects as constructed, the parser with its default argument
NoParsing ==
    /\ extractor = NewExtractor
    /\ parser = NewParser(TRUE)
    /\ document = <<>>

\* nothing assembled, nothing watched, nothing requested
NoAssembly ==
    /\ markdown_parser = None
    /\ doc_element = None
    /\ data = None

NoWatching ==
    /\ watcher = None
    /\ fs = None
    /\ threads = None
    /\ emitted = None

NoRequest == request = None

\* no find_circular_references is running
NoCycleSearch ==
    /\ pc = "idle"
    /\ visited = {}
    /\ rec_stack = {}
    /\ cycles = <<>>
    /\ stack = <<>>
    /\ pending = {}
    /\ started = EmptyDict

\* a new index, nothing called on it
Constructed ==
    /\ elements = EmptyDict
    /\ file_elements = EmptyDict
    /\ references = EmptyDict
    /\ backlinks = EmptyDict
    /\ title_index = EmptyDict
    /\ id_index = EmptyDict
    /\ partial_id_index = EmptyDict
    /\ last_call = [op |-> "__init__", arg |-> None, before |-> 0, changed |-> {}]
    /\ returned = None
    /\ NoCycleSearch

Init ==
    /\ Constructed
    /\ NoParsing
    /\ NoAssembly /\ NoWatching /\ NoRequest

AddElement(e) ==
    /\ \E D \in {add_element(Self, e)} : SetIndex(D)
    /\ last_call' = Call("add_element", e, Changed(Self, e))
    /\ returned' = None
    /\ UNCHANGED <<moreVars, cyclesVars, parserVars>>

RemoveElement(element_id) ==
    \E r \in {remove_element(Self, element_id)} :
        /\ SetIndex(r.index)
        /\ last_call' = Call("remove_element", element_id, {})
        /\ returned' = r.returned
        /\ UNCHANGED <<moreVars, cyclesVars, parserVars>>

Clear ==
    /\ \E D \in {clear(Self)} : SetIndex(D)
    /\ last_call' = Call("clear", None, {})
    /\ returned' = None
    /\ UNCHANGED <<moreVars, cyclesVars, parserVars>>

Search(query, limit) ==
    /\ \E matches \in search(Self, query, limit) : returned' = matches
    /\ last_call' = Call("search", <<query, limit>>, {})
    /\ UNCHANGED <<moreVars, indexVars, cyclesVars, parserVars>>

\* the calls a caller makes with elements of a pool and IDs of a set
Calls(pool, ids) ==
    \/ \E e \in pool : AddElement(e)
    \/ \E element_id \in ids : RemoveElement(element_id)
    \/ Clear

Next == Calls(GraphElements, GraphIds)

Spec == Init /\ [][Next]_vars

NextReplace == Calls(ReplaceElements, ReplaceIds)

SpecReplace == Init /\ [][NextReplace]_vars

NextSearch ==
    \/ Calls(SearchElements, SearchIds)
    \/ \E query \in SearchQueries, limit \in SearchLimits : Search(query, limit)

SpecSearch == Init /\ [][NextSearch]_vars

\* IDs with a hyphen and with an underscore in the suffix, and a short one
PrefixIds ==
    {<<"C", ":", "a", "-", "b", "c">>, <<"C", ":", "a", "_", "b">>, <<"C", ":", "a">>}

PrefixElements == DocElements(PrefixIds, {TitleOne, TitleTwo}, {FileDesign}, {<<>>})

\* the proper prefixes of at least two characters of a text
ProperPrefixes(text) == {SubSeq(text, 1, n) : n \in 2..(Len(text) - 1)}

\* the queries: the prefixes that reach into the suffix
PrefixQueries ==
    {query \in UNION {ProperPrefixes(element_id) : element_id \in PrefixIds} :
        Len(query) > 2}

NextPrefix ==
    \/ Calls(PrefixElements, PrefixIds)
    \/ \E query \in PrefixQueries : Search(query, DefaultLimit)

SpecPrefix == Init /\ [][NextPrefix]_vars

\* title runs: two IDs, titles of the same two words in either order and of
\* one of the words
TitleIds == {IdUpper, IdTask}
TitleAB == <<"a", " ", "b">>
TitleBA == <<"b", " ", "a">>
TitleA  == <<"a">>
TitleElements == DocElements(TitleIds, {TitleAB, TitleBA, TitleA}, {FileDesign}, {<<>>})

\* queries: the titles, one word, one word twice
TitleQueries == {TitleAB, TitleBA, <<"a">>, <<"a", " ", "a">>}

NextTitles ==
    \/ Calls(TitleElements, TitleIds)
    \/ \E query \in TitleQueries : Search(query, DefaultLimit)

SpecTitles == Init /\ [][NextTitles]_vars

\* a caller filling an empty index with elements of pairwise distinct IDs
NextAdds == \E e \in GraphElements : e.id \notin DOMAIN elements /\ AddElement(e)

SpecAdds == Init /\ [][NextAdds]_vars

----------------------------------------------------------------------------
(* DocumentIndex.find_circular_references, one step per iteration or call *)

\* the most references the elements of an index searched for cycles hold in all
MaxEdges == 3

\* the IDs of the indexes searched for cycles
CycleIds == ElementIds

\* the indexes searched for cycles: the elements of a subset of the IDs, each
\* with a refs list over all the IDs (the IDs left out are missing targets)
CycleGraphs ==
    UNION {{g \in [ids -> RefLists(CycleIds)] :
              SumSizes([id \in ids |-> Range(g[id])], ids) <= MaxEdges} :
           ids \in SUBSET CycleIds}

\* add_element for every element of a list
RECURSIVE AddAll(_, _)
AddAll(D, list) ==
    IF list = <<>> THEN D ELSE AddAll(add_element(D, Head(list)), Tail(list))

\* the index after the elements of g were added to a new index
BuildIndex(g) ==
    AddAll(NewIndex,
           [i \in 1..Cardinality(DOMAIN g) |->
               [id |-> ListOf(DOMAIN g)[i], title |-> TitleOne, file |-> FileDesign,
                refs |-> g[ListOf(DOMAIN g)[i]], backlinks |-> <<>>]])

\* lines 397-404 with the visited test before the rec_stack test
DfsEntry_visited_first(element_id, in_progress, seen) ==
    IF element_id \in seen THEN "return"
    ELSE IF element_id \in in_progress THEN "cycle"
    ELSE "explore"

\* lines 397-404 without the visited test
DfsEntry_without_visited(element_id, in_progress, seen) ==
    IF element_id \in in_progress THEN "cycle" ELSE "explore"

\* lines 397-404: the two guards of dfs
DfsEntry(element_id, in_progress, seen) ==
    IF element_id \in in_progress THEN "cycle"
    ELSE IF element_id \in seen THEN "return"
    ELSE "explore"

\* path.index(element_id)
IndexOf(path, element_id) ==
    CHOOSE i \in 1..Len(path) :
        path[i] = element_id /\ \A j \in 1..(i - 1) : path[j] # element_id

\* dfs reporting the whole path instead of path[cycle_start:]
CallDfs_whole_path(element_id, path, callers) ==
    LET entry == DfsEntry(element_id, rec_stack, visited)
    IN  /\ cycles' = IF entry = "cycle"
                     THEN Append(cycles, path \o <<element_id>>)
                     ELSE cycles
        /\ visited' = IF entry = "explore" THEN visited \cup {element_id} ELSE visited
        /\ rec_stack' = IF entry = "explore" THEN rec_stack \cup {element_id}
                        ELSE rec_stack
        /\ started' = IF entry = "explore"
                      THEN Put(started, element_id, Get(started, element_id, 0) + 1)
                      ELSE started
        /\ stack' = IF entry = "explore"
                    THEN Append(callers,
                                [element_id |-> element_id, path |-> path,
                                 todo |-> Get(references, element_id, {})])
                    ELSE callers

\* lines 396-407: the call dfs(element_id, path) up to its for loop, made with
\* the calls of callers active
CallDfs(element_id, path, callers) ==
    LET entry == DfsEntry(element_id, rec_stack, visited)
    IN  /\ cycles' = IF entry = "cycle"
                     THEN Append(cycles,
                                 SubSeq(path, IndexOf(path, element_id), Len(path))
                                    \o <<element_id>>)
                     ELSE cycles
        /\ visited' = IF entry = "explore" THEN visited \cup {element_id} ELSE visited
        /\ rec_stack' = IF entry = "explore" THEN rec_stack \cup {element_id}
                        ELSE rec_stack
        /\ started' = IF entry = "explore"
                      THEN Put(started, element_id, Get(started, element_id, 0) + 1)
                      ELSE started
        /\ stack' = IF entry = "explore"
                    THEN Append(callers,
                                [element_id |-> element_id, path |-> path,
                                 todo |-> Get(references, element_id, {})])
                    ELSE callers

\* lines 392-394: the call of find_circular_references
FindCircularReferences ==
    /\ pc = "idle"
    /\ pc' = "loop"
    /\ visited' = {}
    /\ rec_stack' = {}
    /\ cycles' = <<>>
    /\ stack' = <<>>
    /\ pending' = DOMAIN elements
    /\ started' = EmptyDict
    /\ last_call' = Call("find_circular_references", None, {})
    /\ returned' = <<>>   \* no list returned yet
    /\ UNCHANGED <<moreVars, indexVars, parserVars>>

\* lines 415-417: one iteration of the for loop over self._elements; the dict
\* holds the elements in the order they were added, which is any order
LoopStep ==
    /\ pc = "loop"
    /\ stack = <<>>
    /\ \E element_id \in pending :
         /\ pending' = pending \ {element_id}
         /\ IF element_id \notin visited
            THEN CallDfs(element_id, <<>>, <<>>)
            ELSE UNCHANGED <<visited, rec_stack, cycles, stack, started>>
    /\ UNCHANGED <<moreVars, indexVars, parserVars, last_call, returned, pc>>

\* lines 409-411: one iteration of the for loop of the innermost dfs; the set
\* is iterated in any order
DfsFollow ==
    /\ pc = "loop"
    /\ stack # <<>>
    /\ LET top == stack[Len(stack)]
       IN  \E ref_id \in top.todo :
             LET callers == [stack EXCEPT ![Len(stack)].todo = top.todo \ {ref_id}]
             IN  IF ref_id \in DOMAIN elements
                 THEN CallDfs(ref_id, Append(top.path, top.element_id), callers)
                 ELSE /\ stack' = callers
                      /\ UNCHANGED <<visited, rec_stack, cycles, started>>
    /\ UNCHANGED <<moreVars, indexVars, parserVars, last_call, returned, pc, pending>>

\* line 413: the for loop of the innermost dfs is over
DfsReturn ==
    /\ pc = "loop"
    /\ stack # <<>>
    /\ stack[Len(stack)].todo = {}
    /\ rec_stack' = rec_stack \ {stack[Len(stack)].element_id}
    /\ stack' = SubSeq(stack, 1, Len(stack) - 1)
    /\ UNCHANGED <<moreVars, indexVars, parserVars, last_call, returned, pc, pending, visited,
                   cycles, started>>

\* line 419: return cycles
LoopDone ==
    /\ pc = "loop"
    /\ stack = <<>>
    /\ pending = {}
    /\ pc' = "done"
    /\ returned' = cycles
    /\ UNCHANGED <<moreVars, indexVars, parserVars, last_call, visited, rec_stack, cycles, stack,
                   pending, started>>

InitCycles ==
    /\ \E g \in CycleGraphs :
         \E D \in {BuildIndex(g)} :
            /\ elements = D.elements
            /\ file_elements = D.file_elements
            /\ references = D.references
            /\ backlinks = D.backlinks
            /\ title_index = D.title_index
            /\ id_index = D.id_index
            /\ partial_id_index = D.partial_id_index
    /\ last_call = [op |-> "__init__", arg |-> None, before |-> 0, changed |-> {}]
    /\ returned = <<>>
    /\ NoCycleSearch
    /\ NoParsing
    /\ NoAssembly /\ NoWatching /\ NoRequest

NextCycles ==
    \/ FindCircularReferences
    \/ LoopStep
    \/ DfsFollow
    \/ DfsReturn
    \/ LoopDone

SpecCycles == InitCycles /\ [][NextCycles]_vars

\* find_circular_references is an ordinary synchronous call: it keeps running
SpecCyclesFair == SpecCycles /\ WF_cyclesVars(NextCycles)

----------------------------------------------------------------------------
(* Claims about the reference graph of the index (Spec, SpecReplace) *)

\* the index after the step
SelfAfter == Self'

\* the IDs of the indexed elements whose refs list names target
Referrers(D, target) ==
    {x \in DOMAIN D.elements : target \in Range(D.elements[x].refs)}

\* C1: after every sequence of add_element, remove_element and clear calls,
\* for all IDs A and B: B is in get_backlinks(A) iff A is in get_references(B)
C1_BacklinksMirrorReferences ==
    \A A \in ElementIds, B \in ElementIds :
        (B \in get_backlinks(Self, A)) <=> (A \in get_references(Self, B))

\* C1 witness: an indexed ID was re-added with other refs and some element
\* has a backlink from another one
C1_Witness ==
    /\ last_call.op = "add_element"
    /\ last_call.changed = {"refs"}
    /\ \E A \in ElementIds, B \in ElementIds : A # B /\ B \in get_backlinks(Self, A)

\* C2 (as claimed): after add_element(e) replaced the element indexed under
\* e.id, every other indexed element X whose refs list contains e.id is in
\* get_backlinks(e.id), and e.id is in get_references(X)
C2_ReplacementKeepsBacklinks ==
    (last_call.op = "add_element" /\ "id" \notin last_call.changed) =>
        \A X \in Referrers(Self, last_call.arg.id) \ {last_call.arg.id} :
            /\ X \in get_backlinks(Self, last_call.arg.id)
            /\ last_call.arg.id \in get_references(Self, X)

\* C4: remove_element(id) returns True exactly when id was indexed; then id is
\* not indexed, has no references and no backlinks and occurs in no other
\* ID's references or backlinks; when it returns False the index is unchanged
C4_RemoveElement ==
    [][last_call'.op = "remove_element" =>
        LET id == last_call'.arg
        IN  /\ returned' = (id \in DOMAIN elements)
            /\ returned' = TRUE =>
                 /\ ~has_element(SelfAfter, id)
                 /\ get_references(SelfAfter, id) = {}
                 /\ get_backlinks(SelfAfter, id) = {}
                 /\ \A other \in ElementIds :
                      /\ id \notin get_references(SelfAfter, other)
                      /\ id \notin get_backlinks(SelfAfter, other)
            /\ returned' = FALSE => SelfAfter = Self]_vars

\* C4 witness: an indexed ID was removed that an element still indexed names
\* in its refs list
C4_Witness ==
    /\ last_call.op = "remove_element"
    /\ returned = TRUE
    /\ Referrers(Self, last_call.arg) # {}

\* C5 (as claimed): broken_references holds "X -> T" exactly for the pairs
\* where X is indexed, T is in X's refs list and T is not indexed
C5_BrokenReferences ==
    broken_references(Self) =
        UNION {{<<X, T>> : T \in Range(elements[X].refs) \ DOMAIN elements} :
               X \in DOMAIN elements}

\* the entries of a list returned by search that name element_id
EntriesFor(matches, element_id) ==
    {i \in 1..Len(matches) : matches[i].element_id = element_id}

\* C3: when add_element(e2) replaces an indexed element e1 with the same ID:
\* the element count is unchanged, get_element returns e2, get_references(ID)
\* is the set of e2.refs, ID is in get_backlinks(T) exactly for the T in
\* e2.refs, the element is listed under e2's file only, search finds it by
\* each title word of e2, and a title word that only e1 had gives it no title
\* match any more
C3_ReplaceLeavesNothingOfOld ==
    [][(last_call'.op = "add_element" /\ last_call'.arg.id \in DOMAIN elements) =>
        LET e2 == last_call'.arg
            e1 == elements[e2.id]
        IN  /\ get_element_count(SelfAfter) = get_element_count(Self)
            /\ get_element(SelfAfter, e2.id) = e2
            /\ get_references(SelfAfter, e2.id) = Range(e2.refs)
            /\ \A T \in ElementIds :
                 (e2.id \in get_backlinks(SelfAfter, T)) <=> (T \in Range(e2.refs))
            /\ \A file \in Files :
                 (e2.id \in get_elements_by_file(SelfAfter, file)) <=> (file = e2.file)
            /\ \A word \in TitleWords(e2.title) :
                 \A matches \in search(SelfAfter, word, DefaultLimit) :
                    EntriesFor(matches, e2.id) # {}
            /\ \A word \in TitleWords(e1.title) \ TitleWords(e2.title) :
                 \A matches \in search(SelfAfter, word, DefaultLimit) :
                    \A i \in EntriesFor(matches, e2.id) :
                       matches[i].match_type \notin {"title_exact", "title_partial"}]_vars

\* C3 witness: an indexed element was replaced by one with another title,
\* another file and other refs
C3_Witness ==
    /\ last_call.op = "add_element"
    /\ last_call.changed = {"title", "file", "refs"}
    /\ TitleWords(TitleTwo) \ TitleWords(last_call.arg.title) # {}

\* what the query methods of an index return
Observed(D) ==
    [element_count |-> get_element_count(D),
     reference_count |-> get_reference_count(D),
     element    |-> [id \in ElementIds |-> get_element(D, id)],
     has        |-> [id \in ElementIds |-> has_element(D, id)],
     references |-> [id \in ElementIds |-> get_references(D, id)],
     backlinks  |-> [id \in ElementIds |-> get_backlinks(D, id)],
     search     |-> [query \in SearchQueries |-> search(D, query, DefaultLimit)]]

\* C10: after clear() the index is observationally a new index: the counts
\* are 0, get_element, has_element, get_references, get_backlinks and search
\* return nothing, and an add_element that follows leaves what it leaves on a
\* new index
C10_ClearLikeNew ==
    [][/\ last_call'.op = "clear" =>
            /\ Observed(SelfAfter) = Observed(NewIndex)
            /\ get_element_count(SelfAfter) = 0
            /\ get_reference_count(SelfAfter) = 0
            /\ \A id \in ElementIds :
                 /\ get_element(SelfAfter, id) = None
                 /\ ~has_element(SelfAfter, id)
                 /\ get_references(SelfAfter, id) = {}
                 /\ get_backlinks(SelfAfter, id) = {}
            /\ \A query \in SearchQueries :
                 search(SelfAfter, query, DefaultLimit) = {<<>>}
       /\ (last_call.op = "clear" /\ last_call'.op = "add_element") =>
            Observed(SelfAfter) = Observed(add_element(NewIndex, last_call'.arg))]_vars

\* C10 witness: clear() was called on an index of two or more elements
C10_Witness ==
    /\ last_call.op = "clear"
    /\ last_call.before >= 2

----------------------------------------------------------------------------
(* Claims about search (SpecSearch) *)

\* C6 (as claimed): for every indexed element E, the first entry of
\* search(E.id) is E.id with match_type id_exact and match_score 1.0
C6_ExactIdFirst ==
    (/\ last_call.op = "search"
     /\ last_call.arg[2] = DefaultLimit
     /\ last_call.arg[1] \in DOMAIN elements) =>
        /\ Len(returned) >= 1
        /\ returned[1].element_id = last_call.arg[1]
        /\ returned[1].match_type = "id_exact"
        /\ ScoreEq(returned[1].match_score, Score(1, 1))

\* C7 (as claimed): the list returned by search never holds two entries with
\* the same element_id
C7_SearchDeduplicated ==
    last_call.op = "search" =>
        \A i \in 1..Len(returned), j \in 1..Len(returned) :
            i # j => returned[i].element_id # returned[j].element_id

----------------------------------------------------------------------------
(* Claims about find_circular_references (SpecCycles, SpecCyclesFair) *)

\* the references of the index whose target is indexed
ExistingTargetEdges ==
    UNION {{<<element_id, ref_id>> : ref_id \in references[element_id] \cap DOMAIN elements} :
              element_id \in DOMAIN references \cap DOMAIN elements}

\* no cycle among the elements of S: a directed graph has a cycle exactly when
\* some non-empty set of nodes has, for each of its nodes, a successor in it
Acyclic(S, edges) ==
    \A T \in SUBSET S \ {{}} :
        \E x \in T : \A y \in T : <<x, y>> \notin edges

\* the graph is the cycle A->B->C->A plus acyclic elements unrelated to it
OneThreeCycle(A, B, C) ==
    LET others == DOMAIN elements \ {A, B, C}
    IN  /\ A # B /\ B # C /\ A # C
        /\ {<<A, B>>, <<B, C>>, <<C, A>>} \subseteq ExistingTargetEdges
        /\ ExistingTargetEdges \ {<<A, B>>, <<B, C>>, <<C, A>>} \subseteq others \X others
        /\ Acyclic(others, ExistingTargetEdges)

C9_TerminatesExploringOnce ==
    /\ (pc = "loop") ~> (pc = "done")
    /\ [](\A element_id \in DOMAIN started :
             /\ element_id \in DOMAIN elements
             /\ started[element_id] <= 1)

\* C9 witness: find_circular_references returned on a graph with a
\* self-reference on a second cycle through the same element
C9_Witness ==
    /\ pc = "done"
    /\ \E A \in DOMAIN elements, B \in DOMAIN elements :
          /\ A # B
          /\ {<<A, A>>, <<A, B>>, <<B, A>>} \subseteq ExistingTargetEdges
    /\ DOMAIN started = DOMAIN elements

----------------------------------------------------------------------------
(* Strings of the parsing pipeline *)

\* str.isalpha() and str.isalnum() on one character
IsAlpha(c) == c \in Range(UpperChars) \/ c \in Range(LowerChars)
IsAlnum(c) == IsAlpha(c) \/ c \in DigitChars

\* the characters of the class [A-Za-z0-9_-]
IdChars == Range(UpperChars) \cup Range(LowerChars) \cup DigitChars \cup {"_", "-"}
IsIdChar(c) == c \in IdChars

\* str.split('\n'): the text between the newlines, empty pieces included
RECURSIVE SplitLinesFrom(_, _, _)
SplitLinesFrom(s, i, line) ==
    IF i > Len(s) THEN <<line>>
    ELSE IF s[i] = "\n"
         THEN <<line>> \o SplitLinesFrom(s, i + 1, <<>>)
         ELSE SplitLinesFrom(s, i + 1, Append(line, s[i]))

SplitLines(s) == SplitLinesFrom(s, 1, <<>>)

\* '\n'.join(lines)
RECURSIVE JoinLines(_)
JoinLines(lines) ==
    IF lines = <<>> THEN <<>>
    ELSE IF Len(lines) = 1 THEN lines[1]
    ELSE lines[1] \o <<"\n">> \o JoinLines(Tail(lines))

\* len(s.encode('utf-8')): every character of the model is ASCII, one byte
EncodedLen(s) == Len(s)

\* how many characters of s from index i on are in a row in the class
RunLength(s, i, class) ==
    LET ns == {n \in 0..(Len(s) - i + 1) : \A j \in i..(i + n - 1) : s[j] \in class}
    IN  IF ns = {} THEN 0 ELSE CHOOSE n \in ns : \A m \in ns : m <= n

\* a call that raised the exception, and a call that returned the value
Raise(exception) == [raised |-> exception]
Return(value) == [value |-> value]
IsRaised(outcome) == "raised" \in DOMAIN outcome

\* list[a:b] of Python, a and b 0-based and not negative
Slice(list, a, b) ==
    SubSeq(list, a + 1, IF b > Len(list) THEN Len(list) ELSE b)

----------------------------------------------------------------------------
(* The ID grammar *)

\* IDPrefix, in the order of the enum and of the alternatives of the patterns
Markers ==
    << <<"R", ":">>, <<"C", ":">>, <<"D", ":">>, <<"I", ":">>, <<"M", ":">>,
       <<"U", "I", ":">>, <<"T", ":">>, <<"T", "P", ":">> >>

\* (R:|C:|D:|I:|M:|UI:|T:|TP:) under re.IGNORECASE at index i of s: the length
\* of the alternative that matches there, 0 when none does
MarkerAt(s, i) ==
    LET ks == {k \in 1..Len(Markers) :
                 /\ i + Len(Markers[k]) - 1 <= Len(s)
                 /\ Lower(SubSeq(s, i, i + Len(Markers[k]) - 1)) = Lower(Markers[k])}
    IN  IF ks = {} THEN 0
        ELSE Len(Markers[CHOOSE k \in ks : \A j \in ks : k <= j])

\* \b after index p of s (p = 0: before the first character)
WordBoundary(s, p) ==
    LET before == p >= 1 /\ p <= Len(s) /\ IsWordChar(s[p])
        after  == p + 1 >= 1 /\ p + 1 <= Len(s) /\ IsWordChar(s[p + 1])
    IN  before # after

\* ([A-Za-z0-9][A-Za-z0-9_-]*)\b from index i of s: the length of the suffix
\* matched, the longest that ends at a word boundary; 0 when there is none
SuffixAt(s, i) ==
    LET run == IF i <= Len(s) /\ IsAlnum(s[i]) THEN RunLength(s, i, IdChars) ELSE 0
        ok  == {n \in 1..run : WordBoundary(s, i + n - 1)}
    IN  IF ok = {} THEN 0 ELSE CHOOSE n \in ok : \A m \in ok : m <= n

----------------------------------------------------------------------------
(* MarkdownBodyExtractor *)

\* the heading levels of HEADING_PATTERN: #{1,6}
MaxHeadingLevel == 6

\* HEADING_PATTERN.match(line), ^(#{1,6})\s+(.+?)$ : the hashes, at least one
\* whitespace character, at least one more character
HeadingMatch(line) ==
    LET k == RunLength(line, 1, {"#"})
    IN  /\ 1 <= k /\ k <= MaxHeadingLevel
        /\ Len(line) >= k + 2
        /\ IsSpaceChar(line[k + 1])

\* len(group 1) of the match
HeadingLevel(line) == RunLength(line, 1, {"#"})

\* group 2 of the match: \s+ takes all the whitespace it can and leaves one
\* character to (.+?)
HeadingText(line) ==
    LET k  == HeadingLevel(line)
        ws == RunLength(line, k + 1, SpaceChars)
    IN  IF k + ws >= Len(line) THEN <<line[Len(line)]>>
        ELSE SubSeq(line, k + ws + 1, Len(line))

\* MarkdownBodyExtractor._extract_id_from_heading_text
extract_id_from_heading_text(heading_text) ==
    LET m == MarkerAt(heading_text, 1)
        n == IF m = 0 THEN 0 ELSE RunLength(heading_text, m + 1, IdChars)
    IN  IF m > 0 /\ n > 0 THEN SubSeq(heading_text, 1, m + n) ELSE None

\* the byte position of the start of line line_num (0-based) as
\* _find_heading_boundaries accumulates it
RECURSIVE BytesBefore(_, _)
BytesBefore(lines, line_num) ==
    IF line_num = 0 THEN 0
    ELSE BytesBefore(lines, line_num - 1) + EncodedLen(lines[line_num]) + 1

\* MarkdownBodyExtractor._find_heading_boundaries
RECURSIVE HeadingBoundariesFrom(_, _)
HeadingBoundariesFrom(lines, line_num) ==
    IF line_num >= Len(lines) THEN <<>>
    ELSE LET line == lines[line_num + 1]
             here == IF HeadingMatch(line)
                     THEN << [line_number |-> line_num,
                              byte_position |-> BytesBefore(lines, line_num),
                              heading_level |-> HeadingLevel(line),
                              heading_text |-> Strip(HeadingText(line)),
                              element_id |->
                                  extract_id_from_heading_text(Strip(HeadingText(line)))] >>
                     ELSE <<>>
         IN  here \o HeadingBoundariesFrom(lines, line_num + 1)

find_heading_boundaries(E) == HeadingBoundariesFrom(E.current_lines, 0)

\* MarkdownBodyExtractor._calculate_byte_position
calculate_byte_position(E, line_number) ==
    IF line_number >= Len(E.current_lines) THEN EncodedLen(E.current_text)
    ELSE BytesBefore(E.current_lines, line_number)

\* the body range of a heading, given where it starts and ends; BodyRange's
\* __post_init__ raises ValueError for a range that ends before it starts
BodyRange(E, body_start_line, body_end_line) ==
    LET body_lines      == IF body_start_line >= Len(E.current_lines) THEN <<>>
                           ELSE Slice(E.current_lines, body_start_line, body_end_line)
        body_start_byte == calculate_byte_position(E, body_start_line)
        body_end_byte   == calculate_byte_position(E, body_end_line)
        raw_content     == JoinLines(body_lines)
    IN  IF \/ body_start_line < 0 \/ body_end_line < body_start_line
           \/ body_start_byte < 0 \/ body_end_byte < body_start_byte
        THEN Raise("ValueError")
        ELSE Return(
             [start_line |-> body_start_line, end_line |-> body_end_line,
              start_byte |-> body_start_byte, end_byte |-> body_end_byte,
              raw_content |-> raw_content, stripped_content |-> Strip(raw_content),
              line_count |-> Len(body_lines), char_count |-> Len(Strip(raw_content))])

\* _extract_body_for_heading with the body starting on the heading's own line
extract_body_for_heading_from_heading_line(E, heading_index) ==
    BodyRange(E, E.heading_boundaries[heading_index + 1].line_number,
              IF heading_index + 1 < Len(E.heading_boundaries)
              THEN E.heading_boundaries[heading_index + 2].line_number
              ELSE Len(E.current_lines))

\* _extract_body_for_heading with the body ending at the next heading of the
\* same or a higher level (HeadingBoundary.is_same_or_higher_level)
extract_body_for_heading_to_same_level(E, heading_index) ==
    LET level  == E.heading_boundaries[heading_index + 1].heading_level
        closer == {i \in (heading_index + 2)..Len(E.heading_boundaries) :
                      E.heading_boundaries[i].heading_level <= level}
    IN  BodyRange(E, E.heading_boundaries[heading_index + 1].line_number + 1,
                  IF closer # {}
                  THEN E.heading_boundaries[CHOOSE i \in closer :
                                               \A j \in closer : i <= j].line_number
                  ELSE Len(E.current_lines))

\* MarkdownBodyExtractor._extract_body_for_heading
extract_body_for_heading(E, heading_index) ==
    LET current_heading == E.heading_boundaries[heading_index + 1]
        body_start_line == current_heading.line_number + 1
        body_end_line   == IF heading_index + 1 < Len(E.heading_boundaries)
                           THEN E.heading_boundaries[heading_index + 2].line_number
                           ELSE Len(E.current_lines)
    IN  BodyRange(E, body_start_line, body_end_line)

\* lines 94-98 and 125-129: the fields set from the text
Load(markdown_text) ==
    LET lines == SplitLines(markdown_text)
    IN  [current_text |-> markdown_text, current_lines |-> lines,
         heading_boundaries |-> HeadingBoundariesFrom(lines, 0)]

\* MarkdownBodyExtractor.extract_body_ranges: the extractor after the call and
\* what the call returns
extract_body_ranges(markdown_text) ==
    LET E      == Load(markdown_text)
        bodies == [i \in 1..Len(E.heading_boundaries) |->
                      extract_body_for_heading(E, i - 1)]
    IN  [extractor |-> E,
         returned  |-> IF \E i \in 1..Len(bodies) : IsRaised(bodies[i])
                       THEN Raise("BodyExtractionError")
                       ELSE Return([i \in 1..Len(bodies) |->
                                       [heading |-> E.heading_boundaries[i],
                                        body |-> bodies[i].value]])]

\* MarkdownBodyExtractor.extract_single_body
extract_single_body(markdown_text, heading_line) ==
    LET E    == Load(markdown_text)
        hits == {i \in 1..Len(E.heading_boundaries) :
                    E.heading_boundaries[i].line_number = heading_line}
    IN  [extractor |-> E,
         returned  |-> IF hits = {} THEN Raise("BodyExtractionError")
                       ELSE extract_body_for_heading(
                                E, (CHOOSE i \in hits : \A j \in hits : i <= j) - 1)]

\* extract_and_update_content with after_lines taken from the start of the
\* body range: the old body stays behind the new one
extract_and_update_content_keeps_old_body(markdown_text, heading_line, new_content) ==
    LET single     == extract_single_body(markdown_text, heading_line)
        body_range == single.returned
        lines      == SplitLines(markdown_text)
        new_lines  == IF new_content # <<>> THEN SplitLines(new_content) ELSE << <<>> >>
    IN  [extractor |-> single.extractor,
         returned  |-> IF IsRaised(body_range)
                       THEN Raise("BodyExtractionError")
                       ELSE Return(JoinLines(
                                Slice(lines, 0, body_range.value.start_line)
                                \o new_lines
                                \o Slice(lines, body_range.value.start_line, Len(lines))))]

\* MarkdownBodyExtractor.extract_and_update_content
extract_and_update_content(markdown_text, heading_line, new_content) ==
    LET single     == extract_single_body(markdown_text, heading_line)
        body_range == single.returned
        lines      == SplitLines(markdown_text)
        new_lines  == IF new_content # <<>> THEN SplitLines(new_content) ELSE << <<>> >>
    IN  [extractor |-> single.extractor,
         returned  |-> IF IsRaised(body_range)
                       THEN Raise("BodyExtractionError")
                       ELSE Return(JoinLines(
                                Slice(lines, 0, body_range.value.start_line)
                                \o new_lines
                                \o Slice(lines, body_range.value.end_line, Len(lines))))]

----------------------------------------------------------------------------
(* The body extractor as a state machine *)

\* the most lines of a document handed to the body extractor
MaxLines == 3

\* sequences of one to n elements of S
SeqsUpTo(S, n) == UNION {[1..k -> S] : k \in 1..n}

\* lines of a document: two headings of different levels, text, a blank line,
\* a line of hashes that is no heading
BodyLines ==
    { <<"#", " ", "a">>, <<"#", "#", " ", "b">>, <<"a">>, <<>>, <<"#", "a">> }

\* the documents: the lines joined by newlines
Documents == {JoinLines(lines) : lines \in SeqsUpTo(BodyLines, MaxLines)}

\* replacement bodies: nothing, one line, one line in whitespace, two lines,
\* a line that is a heading
NewContents ==
    { <<>>, <<"b">>, <<" ", "b", " ">>, <<"b", "\n", "c">>, <<"#", " ", "c">> }

ExtractBodyRanges ==
    /\ \E r \in {extract_body_ranges(document)} :
          /\ extractor' = r.extractor
          /\ returned' = r.returned
    /\ last_call' = Call("extract_body_ranges", <<>>, {})
    /\ UNCHANGED <<moreVars, indexVars, cyclesVars, parser, document>>

ExtractSingleBody(heading_line) ==
    /\ \E r \in {extract_single_body(document, heading_line)} :
          /\ extractor' = r.extractor
          /\ returned' = r.returned
    /\ last_call' = Call("extract_single_body", <<heading_line>>, {})
    /\ UNCHANGED <<moreVars, indexVars, cyclesVars, parser, document>>

ExtractAndUpdateContent(heading_line, new_content) ==
    /\ \E r \in {extract_and_update_content(document, heading_line, new_content)} :
          /\ extractor' = r.extractor
          /\ returned' = r.returned
    /\ last_call' = Call("extract_and_update_content", <<heading_line, new_content>>, {})
    /\ UNCHANGED <<moreVars, indexVars, cyclesVars, parser, document>>

\* a caller holding one of the documents
InitBody ==
    /\ Constructed
    /\ extractor = NewExtractor
    /\ parser = NewParser(TRUE)
    /\ document \in Documents
    /\ NoAssembly /\ NoWatching /\ NoRequest

NextBody ==
    \/ ExtractBodyRanges
    \/ \E heading_line \in 0..(MaxLines - 1) : ExtractSingleBody(heading_line)
    \/ \E heading_line \in 0..(MaxLines - 1), new_content \in NewContents :
          ExtractAndUpdateContent(heading_line, new_content)

SpecBody == InitBody /\ [][NextBody]_vars

----------------------------------------------------------------------------
(* MarkdownHeadingParser and IDValidator *)

\* the characters a candidate must not be followed by (the literal of line 227);
\* its grave accent has no string here, and no heading text below holds one
SpecialChars ==
    {"@", "#", "$", "%", "^", "&", "*", "(", ")", "+", "=", "[", "]", "{", "}",
     "|", "\\", ";", ":", "'", "\"", ",", ".", "<", ">", "?", "/", "~"}

\* s.startswith(prefix)
StartsWith(s, prefix) ==
    Len(prefix) <= Len(s) /\ SubSeq(s, 1, Len(prefix)) = prefix

\* _is_valid_suffix with the first character held to isalnum for every marker
is_valid_suffix_any_marker(suffix, prefix) ==
    /\ IsAlnum(suffix[1])
    /\ \A i \in 1..Len(suffix) : IsIdChar(suffix[i])

\* IDValidator._is_valid_suffix
is_valid_suffix(suffix, prefix) ==
    /\ IF prefix \in { <<"T", ":">>, <<"T", "P", ":">> }
       THEN IsAlnum(suffix[1])
       ELSE IsAlpha(suffix[1])
    /\ \A i \in 1..Len(suffix) : IsIdChar(suffix[i])

\* IDValidator.validate_id_format
validate_id_format(id_string) ==
    /\ id_string # <<>>
    /\ \E k \in 1..Len(Markers) :
          /\ StartsWith(Lower(id_string), Lower(Markers[k]))
          /\ LET actual_prefix == SubSeq(id_string, 1, Len(Markers[k]))
                 suffix == SubSeq(id_string, Len(Markers[k]) + 1, Len(id_string))
             IN  suffix # <<>> /\ is_valid_suffix(suffix, actual_prefix)

\* IDValidator.check_uniqueness
check_uniqueness(P, id_string) == id_string \notin P.seen_ids

\* IDValidator.register_id
register_id(P, id_string) == [P EXCEPT !.seen_ids = @ \cup {id_string}]

\* the member of IDPrefix whose value is the marker, whatever its case; the
\* empty string when IDPrefix(...) raises ValueError
PrefixEnum(prefix_str) ==
    LET ks == {k \in 1..Len(Markers) : Lower(Markers[k]) = Lower(prefix_str)}
    IN  IF ks = {} THEN <<>> ELSE Markers[CHOOSE k \in ks : \A j \in ks : k <= j]

\* an Optional[ExtractedID]: no element for None, one element for an ID
NoId == <<>>

\* MarkdownHeadingParser._extract_id_from_heading
extract_id_from_heading(heading_text, heading_level, line_number, raw_line) ==
    LET m          == MarkerAt(heading_text, 1)
        n          == IF m = 0 THEN 0 ELSE SuffixAt(heading_text, m + 1)
        prefix_str == SubSeq(heading_text, 1, m)
        suffix     == SubSeq(heading_text, m + 1, m + n)
        full_id    == prefix_str \o suffix
        match_end  == m + n
    IN  IF m = 0 \/ n = 0 THEN NoId
        ELSE IF /\ match_end < Len(heading_text)
                /\ \/ IsAlnum(heading_text[match_end + 1])
                   \/ heading_text[match_end + 1] \in SpecialChars
        THEN NoId
        ELSE IF ~validate_id_format(full_id) THEN NoId
        ELSE IF PrefixEnum(prefix_str) = <<>> THEN NoId
        ELSE << [full_id |-> full_id, prefix |-> PrefixEnum(prefix_str), suffix |-> suffix,
                 heading_level |-> heading_level, heading_text |-> heading_text,
                 line_number |-> line_number, raw_line |-> raw_line] >>

----------------------------------------------------------------------------
(* Heading ID extraction as a state machine: one heading text, extracted *)

\* the markers as written in upper and in lower case
SpelledMarkers ==
    {Markers[k] : k \in 1..Len(Markers)} \cup {Lower(Markers[k]) : k \in 1..Len(Markers)}

\* suffixes: a letter, a digit, digit then letter, mixed case, with a hyphen
\* inside, starting with a hyphen
HeadingSuffixes ==
    { <<"a">>, <<"1">>, <<"0", "a">>, <<"A", "b">>, <<"a", "-", "1">>, <<"-", "a">> }

\* what follows the ID in the heading: nothing, a title, a dash and a title,
\* a hyphen, and characters that are no part of an ID
HeadingTails ==
    { <<>>, <<" ", "x">>, <<" ", "-", " ", "x">>, <<"\t", "x">>, <<"-">>,
      <<"!">>, <<"!", " ", "x">>, <<".">>, <<":", "x">> }

\* heading texts: marker, suffix, tail; and two without a marker
HeadingTexts ==
    {marker \o suffix \o tail :
        marker \in SpelledMarkers, suffix \in HeadingSuffixes, tail \in HeadingTails}
    \cup { <<"x">>, <<"X", ":", "a">> }

\* the heading levels a heading text is extracted at
HeadingLevels == {1, 2}

\* '#' * heading_level + ' ' + heading_text
RawLine(heading_level, heading_text) ==
    [i \in 1..heading_level |-> "#"] \o <<" ">> \o heading_text

ExtractIdFromHeading(heading_level) ==
    /\ returned' = extract_id_from_heading(document, heading_level, 0,
                                           RawLine(heading_level, document))
    /\ last_call' = Call("_extract_id_from_heading", <<heading_level>>, {})
    /\ UNCHANGED <<moreVars, indexVars, cyclesVars, parserVars>>

\* a caller holding one heading text
InitHeadings ==
    /\ Constructed
    /\ extractor = NewExtractor
    /\ parser = NewParser(TRUE)
    /\ document \in HeadingTexts
    /\ NoAssembly /\ NoWatching /\ NoRequest

NextHeadings == \E heading_level \in HeadingLevels : ExtractIdFromHeading(heading_level)

SpecHeadings == InitHeadings /\ [][NextHeadings]_vars

----------------------------------------------------------------------------
(* extract_ids_from_text and the uniqueness tracker *)

\* ValueError(f"Duplicate ID found: {full_id} at line {line}")
DuplicateId(full_id, line) == [type |-> "ValueError", id |-> full_id, line |-> line]

\* the ExtractedID of line line_num (0-based) of lines, NoId when it has none
IdOfLine(lines, line_num) ==
    LET line == lines[line_num + 1]
    IN  IF ~HeadingMatch(line) THEN NoId
        ELSE extract_id_from_heading(Strip(HeadingText(line)), HeadingLevel(line),
                                     line_num, line)

\* the loop of extract_ids_from_text from line line_num on
RECURSIVE ExtractIdsFrom(_, _, _, _)
ExtractIdsFrom(P, lines, line_num, extracted_ids) ==
    IF line_num >= Len(lines) THEN [parser |-> P, returned |-> Return(extracted_ids)]
    ELSE LET extracted_id == IdOfLine(lines, line_num)
         IN  IF extracted_id = NoId
             THEN ExtractIdsFrom(P, lines, line_num + 1, extracted_ids)
             ELSE IF P.validate_uniqueness
             THEN IF ~check_uniqueness(P, extracted_id[1].full_id)
                  THEN [parser   |-> P,
                        returned |-> Raise(DuplicateId(extracted_id[1].full_id, line_num + 1))]
                  ELSE ExtractIdsFrom(register_id(P, extracted_id[1].full_id), lines,
                                      line_num + 1, extracted_ids \o extracted_id)
             ELSE ExtractIdsFrom(P, lines, line_num + 1, extracted_ids \o extracted_id)

\* MarkdownHeadingParser.extract_ids_from_text: the parser after the call and
\* what the call returned or raised
extract_ids_from_text(P, markdown_text) ==
    ExtractIdsFrom(P, SplitLines(markdown_text), 0, <<>>)

\* lines per text
MaxIdLines == 2

\* lines of a text: headings with IDs, one ID under two headings, plain text
IdLines ==
    { <<"#", " ", "R", ":", "a">>, <<"#", " ", "R", ":", "b">>,
      <<"#", "#", " ", "R", ":", "a", " ", "x">>, <<"#", " ", "T", ":", "1">>, <<"x">> }

IdDocuments == {JoinLines(lines) : lines \in SeqsUpTo(IdLines, MaxIdLines)}

\* MarkdownHeadingParser(validate_uniqueness)
NewMarkdownHeadingParser(validate_uniqueness) ==
    /\ parser' = NewParser(validate_uniqueness)
    /\ returned' = None
    /\ last_call' = Call("MarkdownHeadingParser", <<validate_uniqueness>>, {})
    /\ UNCHANGED <<moreVars, indexVars, cyclesVars, extractor, document>>

ExtractIdsFromText(markdown_text) ==
    /\ \E D \in {extract_ids_from_text(parser, markdown_text)} :
          /\ parser' = D.parser
          /\ returned' = D.returned
    /\ last_call' = Call("extract_ids_from_text", <<markdown_text>>, {})
    /\ UNCHANGED <<moreVars, indexVars, cyclesVars, extractor, document>>

InitIds == Constructed /\ NoParsing /\ NoAssembly /\ NoWatching /\ NoRequest

NextIds ==
    \/ \E validate_uniqueness \in BOOLEAN : NewMarkdownHeadingParser(validate_uniqueness)
    \/ \E markdown_text \in IdDocuments : ExtractIdsFromText(markdown_text)

SpecIds == InitIds /\ [][NextIds]_vars

----------------------------------------------------------------------------
(* ReferenceDetector *)

\* ID_PATTERN.finditer(s) from index i on: the matches from left to right,
\* none overlapping, each with its 0-based start and end and its two groups
RECURSIVE IdMatchesFrom(_, _)
IdMatchesFrom(s, i) ==
    IF i > Len(s) THEN <<>>
    ELSE LET m == IF WordBoundary(s, i - 1) THEN MarkerAt(s, i) ELSE 0
             n == IF m = 0 THEN 0 ELSE SuffixAt(s, i + m)
         IN  IF m > 0 /\ n > 0
             THEN << [start  |-> i - 1,
                      end    |-> i - 1 + m + n,
                      prefix |-> SubSeq(s, i, i + m - 1),
                      suffix |-> SubSeq(s, i + m, i + m + n - 1)] >>
                  \o IdMatchesFrom(s, i + m + n)
             ELSE IdMatchesFrom(s, i + 1)

IdMatches(s) == IdMatchesFrom(s, 1)

\* ReferenceDetector._is_valid_id_suffix
is_valid_id_suffix(suffix, prefix) ==
    IF suffix = <<>> THEN FALSE
    ELSE IF prefix \in { <<"T", ":">>, <<"T", "P", ":">> }
    THEN IsAlnum(suffix[1])
    ELSE IsAlpha(suffix[1])

\* ReferenceDetector._is_valid_id
is_valid_id(prefix, suffix) ==
    /\ prefix \in {Markers[k] : k \in 1..Len(Markers)}
    /\ is_valid_id_suffix(suffix, prefix)

\* the width of the context on each side of a match
ContextWidth == 20

\* the greater and the smaller of two numbers
Max(a, b) == IF a >= b THEN a ELSE b
Min(a, b) == IF a <= b THEN a ELSE b

\* the inline Reference of one match of a line (prefix.upper() is the marker
\* as IDPrefix writes it)
InlineReference(line, line_num, match) ==
    [target_id        |-> PrefixEnum(match.prefix) \o match.suffix,
     reference_type   |-> "inline",
     context          |-> Strip(Slice(line, Max(0, match.start - ContextWidth),
                                      Min(Len(line), match.end + ContextWidth))),
     line_number      |-> line_num,
     position_in_line |-> match.start]

\* the valid matches among matches, in their order
RECURSIVE ValidMatches(_)
ValidMatches(matches) ==
    IF matches = <<>> THEN <<>>
    ELSE (IF is_valid_id(PrefixEnum(matches[1].prefix), matches[1].suffix)
          THEN <<matches[1]>> ELSE <<>>)
         \o ValidMatches(Tail(matches))

\* the loop of _find_inline_references from line line_num (0-based) on
RECURSIVE InlineFrom(_, _)
InlineFrom(lines, line_num) ==
    IF line_num >= Len(lines) THEN <<>>
    ELSE LET line    == lines[line_num + 1]
             matches == ValidMatches(IdMatches(line))
         IN  [i \in 1..Len(matches) |-> InlineReference(line, line_num, matches[i])]
             \o InlineFrom(lines, line_num + 1)

\* ReferenceDetector._find_inline_references
find_inline_references(body_text) == InlineFrom(SplitLines(body_text), 0)

\* the text the section pattern spells after the hashes, and its optional s
ReferenceWord == <<"r", "e", "f", "e", "r", "e", "n", "c", "e">>

\* REFERENCES_SECTION_PATTERN, ^#{1,6}\s*References?:\s*$ under MULTILINE and
\* IGNORECASE, matching at index p of the text: hashes, whitespace (newlines
\* included), the word, the colon, and whitespace up to the end of a line
ReferencesSectionAt(body_text, p) ==
    LET k == RunLength(body_text, p, {"#"})
        w == RunLength(body_text, p + k, SpaceChars)
        q == p + k + w
        n == Len(ReferenceWord)
        e == IF q + n <= Len(body_text) /\ Lower(<<body_text[q + n]>>) = <<"s">>
             THEN q + n + 1 ELSE q + n
        r == RunLength(body_text, e + 1, SpaceChars)
    IN  /\ p = 1 \/ body_text[p - 1] = "\n"
        /\ 1 <= k /\ k <= MaxHeadingLevel
        /\ e <= Len(body_text)
        /\ Lower(SubSeq(body_text, q, q + n - 1)) = ReferenceWord
        /\ body_text[e] = ":"
        /\ \E j \in 0..r : e + j = Len(body_text) \/ body_text[e + j + 1] = "\n"

\* body_text[:header_pos].count('\n'), header_pos 0-based
HeaderLineNum(body_text, header_pos) ==
    Cardinality({j \in 1..header_pos : body_text[j] = "\n"})

\* EXPLICIT_REF_PATTERN.match(line), ^\s*[-*]\s+(.+)$ : whitespace, a bullet,
\* whitespace, and at least one more character
ListMatch(line) ==
    LET ws == RunLength(line, 1, SpaceChars)
    IN  /\ ws + 3 <= Len(line)
        /\ line[ws + 1] \in {"-", "*"}
        /\ IsSpaceChar(line[ws + 2])

\* list_match.group(1).strip(): \s+ leaves (.+) what follows the whitespace, or
\* one whitespace character when nothing follows; stripped, either is the
\* rest of the line stripped
ListContent(line) ==
    Strip(SubSeq(line, RunLength(line, 1, SpaceChars) + 2, Len(line)))

\* the explicit Reference of one match of the content of a list item
ExplicitReference(line, line_num, list_content, match) ==
    [target_id        |-> PrefixEnum(match.prefix) \o match.suffix,
     reference_type   |-> "explicit",
     context          |-> list_content,
     line_number      |-> line_num,
     position_in_line |-> match.start + RunLength(line, 1, SpaceChars)]

\* ReferenceDetector._parse_references_section, from line line_num (0-based)
RECURSIVE parse_references_section(_, _)
parse_references_section(lines, line_num) ==
    IF line_num >= Len(lines) THEN <<>>
    ELSE LET line == lines[line_num + 1]
         IN  IF \/ StartsWith(Strip(line), <<"#">>)
                \/ /\ Strip(line) = <<>>
                   /\ line_num + 1 < Len(lines)
                   /\ StartsWith(Strip(lines[line_num + 2]), <<"#">>)
             THEN <<>>
             ELSE (IF ListMatch(line)
                   THEN LET list_content == ListContent(line)
                            matches      == ValidMatches(IdMatches(list_content))
                        IN  [i \in 1..Len(matches) |->
                                ExplicitReference(line, line_num, list_content, matches[i])]
                   ELSE <<>>)
                  \o parse_references_section(lines, line_num + 1)

\* the loop of _find_explicit_references over the matches of the section
\* pattern from index p of the text on
RECURSIVE ExplicitFrom(_, _)
ExplicitFrom(body_text, p) ==
    IF p > Len(body_text) THEN <<>>
    ELSE (IF ReferencesSectionAt(body_text, p)
          THEN parse_references_section(SplitLines(body_text),
                                        HeaderLineNum(body_text, p - 1) + 1)
          ELSE <<>>)
         \o ExplicitFrom(body_text, p + 1)

\* ReferenceDetector._find_explicit_references
find_explicit_references(body_text) == ExplicitFrom(body_text, 1)

\* the deduplication loop of detect_references_in_text
RECURSIVE Deduplicate(_, _, _)
Deduplicate(refs, seen_ids, unique_references) ==
    IF refs = <<>> THEN unique_references
    ELSE IF refs[1].target_id \notin seen_ids
    THEN Deduplicate(Tail(refs), seen_ids \cup {refs[1].target_id},
                     Append(unique_references, refs[1]))
    ELSE Deduplicate(Tail(refs), seen_ids, unique_references)

\* detect_references_in_text with the inline references put first
detect_references_in_text_inline_first(body_text) ==
    Deduplicate(find_inline_references(body_text) \o find_explicit_references(body_text),
                {}, <<>>)

\* ReferenceDetector.detect_references_in_text
detect_references_in_text(body_text) ==
    Deduplicate(find_explicit_references(body_text) \o find_inline_references(body_text),
                {}, <<>>)

----------------------------------------------------------------------------
(* Reference detection as a state machine: one body, scanned *)

\* lines per body
MaxRefLines == 3

\* lines of a body: the References heading with and without its colon, list
\* items, text naming IDs, a blank line, another heading
RefLines ==
    { <<"#", "#", " ", "R", "e", "f", "e", "r", "e", "n", "c", "e", "s", ":">>,
      <<"#", "#", " ", "R", "e", "f", "e", "r", "e", "n", "c", "e", "s">>,
      <<"-", " ", "C", ":", "a">>,
      <<"*", " ", "T", ":", "1">>,
      <<"c", ":", "a", " ", "T", ":", "1">>,
      <<>>,
      <<"#", " ", "x">> }

RefDocuments == {JoinLines(lines) : lines \in SeqsUpTo(RefLines, MaxRefLines)}

DetectReferencesInText ==
    /\ returned' = detect_references_in_text(document)
    /\ last_call' = Call("detect_references_in_text", <<>>, {})
    /\ UNCHANGED <<moreVars, indexVars, cyclesVars, parserVars>>

FindExplicitReferences ==
    /\ returned' = find_explicit_references(document)
    /\ last_call' = Call("_find_explicit_references", <<>>, {})
    /\ UNCHANGED <<moreVars, indexVars, cyclesVars, parserVars>>

\* a caller holding one body
InitRefs ==
    /\ Constructed
    /\ extractor = NewExtractor
    /\ parser = NewParser(TRUE)
    /\ document \in RefDocuments
    /\ NoAssembly /\ NoWatching /\ NoRequest

NextRefs == DetectReferencesInText \/ FindExplicitReferences

SpecRefs == InitRefs /\ [][NextRefs]_vars

----------------------------------------------------------------------------
(* DocElement *)

\* the members of Kind, File and Status, by name, with their values
KindValues ==
    ("REQUIREMENT" :> "Requirement") @@ ("COMPONENT" :> "Component") @@ ("DATA" :> "Data")
    @@ ("INTERFACE" :> "Interface") @@ ("METHOD" :> "Method") @@ ("UI" :> "UI")
    @@ ("TASK" :> "Task") @@ ("TEST" :> "Test") @@ ("OTHER" :> "Other")

FileValues ==
    ("CONVENTIONS" :> "conventions") @@ ("SOFTWARE_DESIGN" :> "software-design")
    @@ ("DEVELOPMENT_PLAN" :> "development-plan") @@ ("TEST_PLAN" :> "test-plan")

StatusValues ==
    ("PENDING" :> "pending") @@ ("IN_PROGRESS" :> "in_progress")
    @@ ("COMPLETED" :> "completed")

\* the members of Kind in the order of kind_mapping
Kinds == <<"REQUIREMENT", "COMPONENT", "DATA", "INTERFACE", "METHOD", "UI", "TASK", "TEST">>
KindOther == "OTHER"
KindTask == "TASK"

StatusPending == "PENDING"
StatusInProgress == "IN_PROGRESS"
StatusCompleted == "COMPLETED"

FileSoftwareDesign == "SOFTWARE_DESIGN"

\* DocElement(...) with __post_init__: the element, or the ValueError raised
DocElement(id, kind, title, file, heading_level, anchor, body_markdown, refs, bl, status) ==
    IF id = <<>> THEN Raise("ValueError")
    ELSE IF kind # KindTask /\ status # None THEN Raise("ValueError")
    ELSE Return([id |-> id, kind |-> kind, title |-> title, file |-> file,
                 heading_level |-> heading_level, anchor |-> anchor,
                 body_markdown |-> body_markdown, refs |-> refs, backlinks |-> bl,
                 status |-> IF kind = KindTask /\ status = None
                            THEN StatusPending ELSE status])

\* Kind(value), File(value), Status(value): the member with the value, or the
\* ValueError raised when there is none
EnumOf(values, value) ==
    IF \E member \in DOMAIN values : values[member] = value
    THEN Return(CHOOSE member \in DOMAIN values : values[member] = value)
    ELSE Raise("ValueError")

\* DocElement.to_dict
to_dict(e) ==
    LET result == [id |-> e.id, kind |-> KindValues[e.kind], title |-> e.title,
                   file |-> FileValues[e.file], heading_level |-> e.heading_level,
                   anchor |-> e.anchor, body_markdown |-> e.body_markdown,
                   refs |-> e.refs, backlinks |-> e.backlinks]
    IN  IF e.status # None THEN result @@ [status |-> StatusValues[e.status]]
        ELSE result

\* the keys from_dict reads without a default
RequiredKeys ==
    {"id", "kind", "title", "file", "heading_level", "anchor", "body_markdown"}

\* from_dict taking kind, file and status as they are in the dictionary
from_dict_keeping_values(serialized) ==
    IF ~(RequiredKeys \subseteq DOMAIN serialized) THEN Raise("KeyError")
    ELSE DocElement(serialized.id, serialized.kind, serialized.title, serialized.file,
                    serialized.heading_level, serialized.anchor, serialized.body_markdown,
                    Get(serialized, "refs", <<>>), Get(serialized, "backlinks", <<>>),
                    Get(serialized, "status", None))

\* DocElement.from_dict
from_dict(serialized) ==
    IF ~(RequiredKeys \subseteq DOMAIN serialized) THEN Raise("KeyError")
    ELSE LET kind   == EnumOf(KindValues, serialized.kind)
             file   == EnumOf(FileValues, serialized.file)
             status == IF Get(serialized, "status", None) \in {None, ""}
                       THEN Return(None)
                       ELSE EnumOf(StatusValues, serialized.status)
         IN  IF IsRaised(kind) \/ IsRaised(file) \/ IsRaised(status)
             THEN Raise("ValueError")
             ELSE DocElement(serialized.id, kind.value, serialized.title, file.value,
                             serialized.heading_level, serialized.anchor,
                             serialized.body_markdown, Get(serialized, "refs", <<>>),
                             Get(serialized, "backlinks", <<>>), status.value)

\* DocElement.add_reference
add_reference(e, ref_id) ==
    IF ref_id \in Range(e.refs) THEN e ELSE [e EXCEPT !.refs = Append(@, ref_id)]

\* DocElement.add_backlink
add_backlink(e, ref_id) ==
    IF ref_id \in Range(e.backlinks) THEN e ELSE [e EXCEPT !.backlinks = Append(@, ref_id)]

----------------------------------------------------------------------------
(* MarkdownParser *)

\* the member of File file_mapping has for a file name stem
FileMapping ==
    [stem \in {FileValues[member] : member \in DOMAIN FileValues} |->
        CHOOSE member \in DOMAIN FileValues : FileValues[member] = stem]

\* MarkdownParser._determine_file_enum, the path given as its stem
determine_file_enum(file_path) ==
    IF file_path = None THEN None
    ELSE Get(FileMapping, file_path, None)

\* MarkdownParser.__init__
NewMarkdownParser(file_path) ==
    [file_path |-> file_path, file_enum |-> determine_file_enum(file_path)]

\* element_id.split(':', 1)[0]: the text before the first colon
BeforeColon(element_id) ==
    SubSeq(element_id, 1, RunLength(element_id, 1, {c \in Range(element_id) : c # ":"}))

\* MarkdownParser._determine_kind_from_id
determine_kind_from_id(element_id) ==
    IF element_id = <<>> \/ ":" \notin Range(element_id) THEN KindOther
    ELSE LET prefix == BeforeColon(element_id) \o <<":">>
             ks     == {k \in 1..Len(Markers) : Lower(Markers[k]) = Lower(prefix)}
         IN  IF ks = {} THEN KindOther ELSE Kinds[CHOOSE k \in ks : TRUE]

\* re.sub(r'-+', '-', ...) after re.sub(r'\s+', '-', ...): every run of
\* whitespace and hyphens becomes one hyphen
RECURSIVE CollapseHyphens(_)
CollapseHyphens(s) ==
    IF s = <<>> THEN <<>>
    ELSE IF s[1] \in SpaceChars \cup {"-"}
    THEN <<"-">> \o CollapseHyphens(SubSeq(s, 1 + RunLength(s, 1, SpaceChars \cup {"-"}), Len(s)))
    ELSE <<s[1]>> \o CollapseHyphens(Tail(s))

\* str.strip('-')
StripHyphens(s) ==
    LET keep == {i \in 1..Len(s) : s[i] # "-"}
    IN  IF keep = {} THEN <<>>
        ELSE SubSeq(s, CHOOSE i \in keep : \A j \in keep : i <= j,
                       CHOOSE i \in keep : \A j \in keep : i >= j)

\* MarkdownParser._create_anchor
create_anchor(title) ==
    LET lowered == Lower(title)
        kept    == SelectSeq(lowered, LAMBDA c : IsWordChar(c) \/ IsSpaceChar(c) \/ c = "-")
    IN  StripHyphens(CollapseHyphens(kept))

\* MarkdownParser._extract_title_from_heading: ^#+\s* removed and stripped;
\* then ^([A-Za-z]+:\w+)\s*-\s*(.+)$ : letters, a colon, word characters,
\* whitespace, a dash, and at least one more character, which is the title
extract_title_from_heading(heading_text) ==
    LET title == Strip(SubSeq(heading_text,
                              1 + RunLength(heading_text, 1, {"#"})
                                + RunLength(heading_text,
                                            1 + RunLength(heading_text, 1, {"#"}), SpaceChars),
                              Len(heading_text)))
        l     == RunLength(title, 1, Range(UpperChars) \cup Range(LowerChars))
        w     == RunLength(title, l + 2, {c \in Range(title) : IsWordChar(c)})
        s     == RunLength(title, l + w + 2, SpaceChars)
        dash  == l + 1 + w + s + 1
    IN  IF /\ l >= 1 /\ l < Len(title) /\ title[l + 1] = ":"
           /\ w >= 1
           /\ dash < Len(title)
           /\ title[dash] = "-"
        THEN Strip(SubSeq(title, dash + 1, Len(title)))
        ELSE title

\* the words of _extract_task_status, in the order they are tried
CompletedWords == << <<"c", "o", "m", "p", "l", "e", "t", "e", "d">>, <<"d", "o", "n", "e">>, <<"f", "i", "n", "i", "s", "h", "e", "d">> >>
InProgressWords == << <<"i", "n", " ", "p", "r", "o", "g", "r", "e", "s", "s">>, <<"w", "o", "r", "k", "i", "n", "g">>, <<"i", "m", "p", "l", "e", "m", "e", "n", "t", "i", "n", "g">> >>

\* _extract_task_status looking for the in-progress words first
extract_task_status_in_progress_first(body_content) ==
    LET content_lower == Lower(body_content)
    IN  IF \E i \in 1..Len(InProgressWords) : Contains(content_lower, InProgressWords[i])
        THEN StatusInProgress
        ELSE IF \E i \in 1..Len(CompletedWords) : Contains(content_lower, CompletedWords[i])
        THEN StatusCompleted
        ELSE StatusPending

\* MarkdownParser._extract_task_status
extract_task_status(body_content) ==
    LET content_lower == Lower(body_content)
    IN  IF \E i \in 1..Len(CompletedWords) : Contains(content_lower, CompletedWords[i])
        THEN StatusCompleted
        ELSE IF \E i \in 1..Len(InProgressWords) : Contains(content_lower, InProgressWords[i])
        THEN StatusInProgress
        ELSE StatusPending

\* str(n) for a line number
DecimalDigits == <<"0", "1", "2", "3", "4", "5", "6", "7", "8", "9">>
RECURSIVE ToDecimal(_)
ToDecimal(n) ==
    IF n < 10 THEN <<DecimalDigits[n + 1]>>
    ELSE ToDecimal(n \div 10) \o <<DecimalDigits[(n % 10) + 1]>>

\* f"NoID_Line{line_number}"
PlaceholderId(line_number) ==
    <<"N", "o", "I", "D", "_", "L", "i", "n", "e">> \o ToDecimal(line_number)

\* _create_doc_element without the placeholder: an element without ID is made
\* with the empty ID, which DocElement refuses
create_doc_element_without_placeholder(P, parsed) ==
    LET kind       == IF parsed.id # NoId THEN determine_kind_from_id(parsed.id)
                      ELSE KindOther
        file_enum  == IF P.file_enum # None THEN P.file_enum ELSE FileSoftwareDesign
        status     == IF kind = KindTask THEN extract_task_status(parsed.body_content)
                      ELSE None
    IN  DocElement(parsed.id, kind, parsed.title, file_enum, parsed.heading_level,
                   create_anchor(parsed.title), parsed.body_content, parsed.refs,
                   <<>>, status)

\* MarkdownParser._create_doc_element
create_doc_element(P, parsed) ==
    LET kind       == IF parsed.id # NoId THEN determine_kind_from_id(parsed.id)
                      ELSE KindOther
        element_id == IF parsed.id # NoId THEN parsed.id
                      ELSE PlaceholderId(parsed.line_number)
        file_enum  == IF P.file_enum # None THEN P.file_enum ELSE FileSoftwareDesign
        status     == IF kind = KindTask THEN extract_task_status(parsed.body_content)
                      ELSE None
    IN  DocElement(element_id, kind, parsed.title, file_enum, parsed.heading_level,
                   create_anchor(parsed.title), parsed.body_content, parsed.refs,
                   <<>>, status)

\* the ParsedElement made of a heading, its body range, the IDs extracted from
\* the heading and the references detected in the body; an element without ID
\* holds the empty text
ParsedElementOf(heading_boundary, body_range, extracted_ids, detected) ==
    IF IsRaised(extracted_ids) THEN Raise("ValueError")
    ELSE Return(
         [id           |-> IF extracted_ids.value # <<>>
                           THEN extracted_ids.value[1].full_id ELSE NoId,
          title        |-> extract_title_from_heading(heading_boundary.heading_text),
          heading_level |-> heading_boundary.heading_level,
          line_number  |-> heading_boundary.line_number,
          body_content |-> body_range.stripped_content,
          refs         |-> [i \in 1..Len(detected) |-> detected[i].target_id]])

\* the ParsedElement parse_markdown makes of one heading and its body range;
\* extract_ids_from_markdown parses the rebuilt heading with a new parser
\* (both calls are evaluated once)
ParsedElement(heading_boundary, body_range) ==
    CHOOSE parsed \in
        {ParsedElementOf(heading_boundary, body_range, extracted_ids, detected) :
            extracted_ids \in
                {extract_ids_from_text(NewParser(TRUE),
                     RawLine(heading_boundary.heading_level,
                             heading_boundary.heading_text)).returned},
            detected \in {detect_references_in_text(body_range.stripped_content)}} : TRUE

\* the elements of the list that were created (a heading whose DocElement
\* raised is skipped with a warning)
RECURSIVE Created(_)
Created(outcomes) ==
    IF outcomes = <<>> THEN <<>>
    ELSE (IF IsRaised(outcomes[1]) THEN <<>> ELSE <<outcomes[1].value>>)
         \o Created(Tail(outcomes))

\* the ParsedElements of the body ranges, in order
RECURSIVE ParsedElements(_)
ParsedElements(body_ranges) ==
    IF body_ranges = <<>> THEN <<>>
    ELSE <<ParsedElement(body_ranges[1].heading, body_ranges[1].body)>>
         \o ParsedElements(Tail(body_ranges))

\* the DocElements parse_markdown makes of the parsed elements
ElementsOf(P, parsed_elements) ==
    IF \E i \in 1..Len(parsed_elements) : IsRaised(parsed_elements[i])
    THEN Raise("MarkdownParsingError")
    ELSE Return(Created([i \in 1..Len(parsed_elements) |->
                            create_doc_element(P, parsed_elements[i].value)]))

\* parse_markdown after the body ranges were extracted
ParseRanges(P, body_ranges) ==
    IF IsRaised(body_ranges) THEN Raise("MarkdownParsingError")
    ELSE CHOOSE outcome \in
             {ElementsOf(P, parsed_elements) :
                 parsed_elements \in {ParsedElements(body_ranges.value)}} : TRUE

\* MarkdownParser.parse_markdown (the body ranges are extracted once)
parse_markdown(P, markdown_content) ==
    CHOOSE outcome \in
        {ParseRanges(P, body_ranges) :
            body_ranges \in {extract_body_ranges(markdown_content).returned}} : TRUE

----------------------------------------------------------------------------
(* Assembly as a state machine: one parser, one text, parsed *)

\* lines per text
MaxParseLines == 2

\* lines of a text: headings with an ID and a title, with a hyphen in the ID,
\* with an unknown marker, without an ID, of a task; bodies with status words
\* and a reference
ParseLines ==
    { <<"#", " ", "R", ":", "a", " ", "-", " ", "b">>,
      <<"#", " ", "C", ":", "a", "-", "b", " ", "-", " ", "x">>,
      <<"#", " ", "X", ":", "a", " ", "-", " ", "b">>,
      <<"#", "#", " ", "x">>,
      <<"#", " ", "T", ":", "1">>,
      <<"D", "o", "n", "e">>,
      <<"w", "o", "r", "k", "i", "n", "g", " ", "C", ":", "a">>,
      <<"W", "o", "r", "k", "i", "n", "g", ",", " ", "d", "o", "n", "e">> }

ParseDocuments == {JoinLines(lines) : lines \in SeqsUpTo(ParseLines, MaxParseLines)}

\* the file paths a parser is made for: none, a known file, another file
FilePaths == {None, "development-plan", "notes"}

ParseMarkdown ==
    /\ returned' = parse_markdown(markdown_parser, document)
    /\ last_call' = Call("parse_markdown", <<>>, {})
    /\ UNCHANGED <<indexVars, cyclesVars, parserVars, assemblyVars, watcherVars, requestVars>>

\* a caller holding one parser and one text
InitParse ==
    /\ Constructed
    /\ extractor = NewExtractor
    /\ parser = NewParser(TRUE)
    /\ document \in ParseDocuments
    /\ \E file_path \in FilePaths : markdown_parser = NewMarkdownParser(file_path)
    /\ doc_element = None
    /\ data = None
    /\ NoWatching /\ NoRequest

NextParse == ParseMarkdown

SpecParse == InitParse /\ [][NextParse]_vars

----------------------------------------------------------------------------
(* Serialization as a state machine: one element written and read back *)

\* references and backlinks of one element
MaxLinks == 2

\* the IDs of the elements and of their references
LinkedIds == {<<"T", ":", "1">>, <<"N", "o", "I", "D", "_", "L", "i", "n", "e", "0">>}

\* the elements DocElement(...) makes: every kind, two files, a task with each
\* status and without one
ValidElements ==
    {D.value : D \in {E \in {DocElement(id, kind, <<"x">>, file, 1, <<"x">>,
                                        <<"d", "o", "n", "e">>, <<>>, <<>>, status) :
                                 id \in LinkedIds,
                                 kind \in Range(Kinds) \cup {KindOther},
                                 file \in {FileSoftwareDesign, "TEST_PLAN"},
                                 status \in {None} \cup DOMAIN StatusValues} :
                          ~IsRaised(E)}}

AddReference(ref_id) ==
    /\ Len(doc_element.refs) < MaxLinks
    /\ doc_element' = add_reference(doc_element, ref_id)
    /\ last_call' = Call("add_reference", ref_id, {})
    /\ returned' = None
    /\ UNCHANGED <<indexVars, cyclesVars, parserVars, markdown_parser, data,
                   watcherVars, requestVars>>

AddBacklink(ref_id) ==
    /\ Len(doc_element.backlinks) < MaxLinks
    /\ doc_element' = add_backlink(doc_element, ref_id)
    /\ last_call' = Call("add_backlink", ref_id, {})
    /\ returned' = None
    /\ UNCHANGED <<indexVars, cyclesVars, parserVars, markdown_parser, data,
                   watcherVars, requestVars>>

ToDict ==
    /\ data' = to_dict(doc_element)
    /\ returned' = to_dict(doc_element)
    /\ last_call' = Call("to_dict", <<>>, {})
    /\ UNCHANGED <<indexVars, cyclesVars, parserVars, markdown_parser, doc_element,
                   watcherVars, requestVars>>

\* from_dict of the dictionary to_dict has just returned
FromDict ==
    /\ last_call.op = "to_dict"
    /\ returned' = from_dict(data)
    /\ last_call' = Call("from_dict", <<>>, {})
    /\ UNCHANGED <<indexVars, cyclesVars, parserVars, assemblyVars, watcherVars, requestVars>>

InitDict ==
    /\ Constructed
    /\ NoParsing
    /\ markdown_parser = None
    /\ doc_element \in ValidElements
    /\ data = None
    /\ NoWatching /\ NoRequest

NextDict ==
    \/ \E ref_id \in LinkedIds : AddReference(ref_id)
    \/ \E ref_id \in LinkedIds : AddBacklink(ref_id)
    \/ ToDict
    \/ FromDict

SpecDict == InitDict /\ [][NextDict]_vars

----------------------------------------------------------------------------
(* PollingFileWatcher *)

\* the directories that exist, and a path that does not
Directories == {"d1", "d2"}
MissingPath == "missing"

\* the files of the file system: a markdown file in each directory and a text
\* file
WatchedFiles ==
    { [dir |-> "d1", name |-> "a", suffix |-> ".md"],
      [dir |-> "d2", name |-> "b", suffix |-> ".md"],
      [dir |-> "d1", name |-> "n", suffix |-> ".txt"] }

\* modification times and checksums of a file
MaxStamp == 2

\* a file that does not exist, and the files that do
Absent == [exists |-> FALSE, mtime |-> 0, checksum |-> 0]
FileContents == [exists : {TRUE}, mtime : 1..MaxStamp, checksum : 1..MaxStamp]

\* FileEventType.value
EventCreated == "created"
EventModified == "modified"
EventDeleted == "deleted"

\* FileSystemEvent, by its type and path
FileSystemEvent(event_type, file_path) ==
    [event_type |-> event_type, file_path |-> file_path]

\* PollingFileWatcher.__init__, the lock by the thread that holds it
NewWatcher ==
    [watch_paths |-> {}, file_states |-> EmptyDict, watch_thread |-> None,
     stop_event |-> FALSE, lock |-> None, is_watching |-> FALSE]

\* _get_file_state: the mtime and checksum kept of a file that exists
get_file_state(F, file_path) ==
    [mtime |-> F[file_path].mtime, checksum |-> F[file_path].checksum]

\* directory.rglob("*.md"), the files among them
current_files(F, directory) ==
    {file_path \in DOMAIN F : /\ file_path.dir = directory
                              /\ file_path.suffix = ".md"
                              /\ F[file_path].exists}

\* the event of a current file told by its checksum alone
FileEvent_by_checksum(W, F, file_path) ==
    IF ~F[file_path].exists THEN <<>>
    ELSE IF file_path \notin DOMAIN W.file_states
    THEN <<FileSystemEvent(EventCreated, file_path)>>
    ELSE IF get_file_state(F, file_path).checksum # W.file_states[file_path].checksum
    THEN <<FileSystemEvent(EventModified, file_path)>>
    ELSE <<>>

\* _scan_directory, lines 153-182: the event of a current file, if any
FileEvent(W, F, file_path) ==
    IF ~F[file_path].exists THEN <<>>
    ELSE IF file_path \notin DOMAIN W.file_states
    THEN <<FileSystemEvent(EventCreated, file_path)>>
    ELSE IF \/ get_file_state(F, file_path).mtime # W.file_states[file_path].mtime
            \/ get_file_state(F, file_path).checksum # W.file_states[file_path].checksum
    THEN <<FileSystemEvent(EventModified, file_path)>>
    ELSE <<>>

\* _scan_directory, line 185: the state of a current file is stored
StoreState(W, F, file_path) ==
    IF ~F[file_path].exists THEN W
    ELSE [W EXCEPT !.file_states = Put(@, file_path, get_file_state(F, file_path))]

\* _scan_directory, line 188-189
deleted_files(W, current) == (DOMAIN W.file_states) \ current

\* del self.file_states[file_path]
Forget(W, file_path) ==
    [W EXCEPT !.file_states = [x \in (DOMAIN @) \ {file_path} |-> @[x]]]

\* the sequences that hold every element of a set once
Orderings(S) == {order \in [1..Cardinality(S) -> S] : Range(order) = S}

\* the loop over current_files, in the order the set is iterated
RECURSIVE ScanCurrent(_, _, _, _)
ScanCurrent(W, F, files, events) ==
    IF files = <<>> THEN [watcher |-> W, events |-> events]
    ELSE ScanCurrent(StoreState(W, F, files[1]), F, Tail(files),
                     events \o FileEvent(W, F, files[1]))

\* the loop over deleted_files
RECURSIVE ScanDeleted(_, _, _)
ScanDeleted(W, files, events) ==
    IF files = <<>> THEN [watcher |-> W, events |-> events]
    ELSE ScanDeleted(Forget(W, files[1]), Tail(files),
                     Append(events, FileSystemEvent(EventDeleted, files[1])))

----------------------------------------------------------------------------
(* Scanning as a state machine: one watcher, scans called one after another *)

FilesUnchanged ==
    UNCHANGED <<indexVars, cyclesVars, parserVars, assemblyVars, requestVars>>

\* a file is written: created, or its content or time changed
WriteFile(file_path, content) ==
    /\ fs[file_path] # content
    /\ fs' = [fs EXCEPT ![file_path] = content]
    /\ UNCHANGED <<watcher, threads, emitted, last_call, returned>>
    /\ FilesUnchanged

\* a file is deleted
DeleteFile(file_path) ==
    /\ fs[file_path].exists
    /\ fs' = [fs EXCEPT ![file_path] = Absent]
    /\ UNCHANGED <<watcher, threads, emitted, last_call, returned>>
    /\ FilesUnchanged

\* PollingFileWatcher._scan_directory called by itself, with no thread
\* holding the lock; emitted holds the events of the call
ScanDirectory(directory) ==
    /\ watcher.lock = None
    /\ IF directory \notin Directories
       THEN watcher' = watcher /\ emitted' = <<>>
       ELSE \E files \in Orderings(current_files(fs, directory)) :
               \E D1 \in {ScanCurrent(watcher, fs, files, <<>>)} :
                  \E gone \in Orderings(deleted_files(D1.watcher,
                                                      current_files(fs, directory))) :
                     \E D2 \in {ScanDeleted(D1.watcher, gone, D1.events)} :
                        /\ watcher' = D2.watcher
                        /\ emitted' = D2.events
    /\ last_call' = Call("_scan_directory", directory, {})
    /\ returned' = None
    /\ UNCHANGED <<fs, threads>>
    /\ FilesUnchanged

\* a new watcher, and files of which none exists
InitScan ==
    /\ Constructed
    /\ NoParsing
    /\ NoAssembly /\ NoRequest
    /\ watcher = NewWatcher
    /\ fs = [file_path \in WatchedFiles |-> Absent]
    /\ threads = None
    /\ emitted = <<>>

\* the directory that is scanned
ScannedDirectory == "d1"

NextScan ==
    \/ \E file_path \in WatchedFiles, content \in FileContents : WriteFile(file_path, content)
    \/ \E file_path \in WatchedFiles : DeleteFile(file_path)
    \/ \E directory \in {ScannedDirectory, MissingPath} : ScanDirectory(directory)

SpecScan == InitScan /\ [][NextScan]_vars

----------------------------------------------------------------------------
(* Watching as a state machine: a caller, the polling threads, the files *)

\* the thread of the caller and the polling thread; a thread that has ended
\* leaves its name to the next one started
Caller == "main"
Pollers == <<"poll">>

\* events delivered to the handlers
MaxEvents == 2

\* a thread at a position: the directory it scans, the markdown files found,
\* the files still to look at, the files to report as deleted, the event it
\* is about to emit with the file state read for it, the paths still to scan
Thread(position) ==
    [pc |-> position, call |-> None, directory |-> None, current |-> {}, todo |-> {},
     gone |-> {}, event |-> <<>>, paths |-> {}]

MarkdownFiles == {file_path \in WatchedFiles : file_path.suffix = ".md"}

WatchUnchanged ==
    UNCHANGED <<indexVars, cyclesVars, parserVars, assemblyVars, requestVars>>

\* start_watching up to the initial scan: the path is checked, the lock taken,
\* the path added
StartWatching(path) ==
    /\ threads[Caller].pc = "idle"
    /\ last_call' = Call("start_watching", path, {})
    /\ IF path \notin Directories
       THEN /\ returned' = Raise("FileWatcherError")
            /\ UNCHANGED <<watcher, threads>>
       ELSE /\ watcher.lock = None
            /\ watcher' = [watcher EXCEPT !.lock = Caller, !.watch_paths = @ \cup {path}]
            /\ threads' = [threads EXCEPT ![Caller] =
                              [Thread("list") EXCEPT !.call = "start_watching",
                                                     !.directory = path]]
            /\ returned' = None
    /\ UNCHANGED <<fs, emitted>>
    /\ WatchUnchanged

\* _scan_directory, lines 142-152: the markdown files of the directory
ScanList(t) ==
    /\ threads[t].pc = "list"
    /\ threads' = [threads EXCEPT ![t].pc = "files",
                                  ![t].current = current_files(fs, threads[t].directory),
                                  ![t].todo = current_files(fs, threads[t].directory)]
    /\ UNCHANGED <<watcher, fs, emitted, last_call, returned>>
    /\ WatchUnchanged

\* _scan_directory, lines 154-185 for one file: its state is stored, or its
\* event is made
ScanFile(t, file_path) ==
    /\ threads[t].pc = "files"
    /\ file_path \in threads[t].todo
    /\ IF FileEvent(watcher, fs, file_path) = <<>>
       THEN /\ watcher' = StoreState(watcher, fs, file_path)
            /\ threads' = [threads EXCEPT ![t].todo = @ \ {file_path}]
       ELSE /\ threads' = [threads EXCEPT
                             ![t].pc = "emit",
                             ![t].event = << [event |-> FileEvent(watcher, fs, file_path)[1],
                                              state |-> get_file_state(fs, file_path)] >>]
            /\ UNCHANGED watcher
    /\ UNCHANGED <<fs, emitted, last_call, returned>>
    /\ WatchUnchanged

\* _scan_directory, lines 187-189
ScanGone(t) ==
    /\ threads[t].pc = "files"
    /\ threads[t].todo = {}
    /\ threads' = [threads EXCEPT ![t].pc = "gone",
                                  ![t].gone = deleted_files(watcher, threads[t].current)]
    /\ UNCHANGED <<watcher, fs, emitted, last_call, returned>>
    /\ WatchUnchanged

\* _scan_directory, lines 191-197: the event of a deleted file is made
ScanForget(t, file_path) ==
    /\ threads[t].pc = "gone"
    /\ file_path \in threads[t].gone
    /\ threads' = [threads EXCEPT
                     ![t].pc = "emit",
                     ![t].event = << [event |-> FileSystemEvent(EventDeleted, file_path),
                                      state |-> get_file_state(fs, file_path)] >>]
    /\ UNCHANGED <<watcher, fs, emitted, last_call, returned>>
    /\ WatchUnchanged

\* _emit_event and the line after it: the thread takes the lock, which no
\* thread may hold, the handlers get the event, and the state of the file is
\* stored or deleted; del raises KeyError when another thread deleted it
EmitEvent(t) ==
    /\ threads[t].pc = "emit"
    /\ watcher.lock = None
    /\ Len(emitted) < MaxEvents
    /\ emitted' = Append(emitted, threads[t].event[1].event)
    /\ LET event == threads[t].event[1].event
       IN  IF event.event_type # EventDeleted
           THEN /\ watcher' = [watcher EXCEPT
                                 !.file_states = Put(@, event.file_path, threads[t].event[1].state)]
                /\ threads' = [threads EXCEPT ![t].pc = "files", ![t].event = <<>>,
                                              ![t].todo = @ \ {event.file_path}]
           ELSE IF event.file_path \in DOMAIN watcher.file_states
           THEN /\ watcher' = Forget(watcher, event.file_path)
                /\ threads' = [threads EXCEPT ![t].pc = "gone", ![t].event = <<>>,
                                              ![t].gone = @ \ {event.file_path}]
           ELSE /\ threads' = [threads EXCEPT ![t] = Thread("raised")]
                /\ UNCHANGED watcher
    /\ UNCHANGED <<fs, last_call, returned>>
    /\ WatchUnchanged

\* the end of _scan_directory
ScanEnd(t) ==
    /\ threads[t].pc = "gone"
    /\ threads[t].gone = {}
    /\ threads' = [threads EXCEPT ![t].pc = "scanned"]
    /\ UNCHANGED <<watcher, fs, emitted, last_call, returned>>
    /\ WatchUnchanged

\* start_watching after the initial scan: the thread is started when the
\* watcher is not watching, the lock released
StartWatchingEnd ==
    /\ threads[Caller].pc = "scanned"
    /\ threads[Caller].call = "start_watching"
    /\ IF watcher.is_watching
       THEN /\ watcher' = [watcher EXCEPT !.lock = None]
            /\ threads' = [threads EXCEPT ![Caller] = Thread("idle")]
       ELSE \E k \in 1..Len(Pollers) :
               /\ threads[Pollers[k]].pc \in {"unstarted", "exited", "raised"}
               /\ \A j \in 1..(k - 1) :
                     threads[Pollers[j]].pc \notin {"unstarted", "exited", "raised"}
               /\ watcher' = [watcher EXCEPT !.lock = None, !.stop_event = FALSE,
                                             !.watch_thread = Pollers[k],
                                             !.is_watching = TRUE]
               /\ threads' = [threads EXCEPT ![Caller] = Thread("idle"),
                                             ![Pollers[k]] = Thread("wait")]
    /\ last_call' = Call("start_watching", threads[Caller].directory, {"returned"})
    /\ returned' = None
    /\ UNCHANGED <<fs, emitted>>
    /\ WatchUnchanged

\* stop_watching up to the join: the lock is taken, the stop event set
StopWatching ==
    /\ threads[Caller].pc = "idle"
    /\ watcher.lock = None
    /\ watcher' = IF watcher.is_watching
                  THEN [watcher EXCEPT !.lock = Caller, !.stop_event = TRUE,
                                       !.is_watching = FALSE]
                  ELSE [watcher EXCEPT !.lock = Caller]
    /\ threads' = [threads EXCEPT ![Caller] = [Thread("join") EXCEPT !.call = "stop_watching"]]
    /\ last_call' = Call("stop_watching", <<>>, {})
    /\ returned' = None
    /\ UNCHANGED <<fs, emitted>>
    /\ WatchUnchanged

\* stop_watching from the join on: the thread has ended or five seconds have
\* passed, the paths and the file states are cleared, the lock released
StopWatchingEnd ==
    /\ threads[Caller].pc = "join"
    /\ watcher' = [watcher EXCEPT !.lock = None, !.watch_paths = {},
                                  !.file_states = EmptyDict]
    /\ threads' = [threads EXCEPT ![Caller] = Thread("idle")]
    /\ last_call' = Call("stop_watching", <<>>, {"returned"})
    /\ returned' = None
    /\ UNCHANGED <<fs, emitted>>
    /\ WatchUnchanged

\* _watch_loop: the wait for the stop event or the poll interval
PollWait(t) ==
    /\ threads[t].pc = "wait"
    /\ threads' = [threads EXCEPT ![t].pc = IF watcher.stop_event THEN "exited" ELSE "copy"]
    /\ UNCHANGED <<watcher, fs, emitted, last_call, returned>>
    /\ WatchUnchanged

\* _watch_loop: the watched paths are copied under the lock
PollCopy(t) ==
    /\ threads[t].pc = "copy"
    /\ watcher.lock = None
    /\ threads' = [threads EXCEPT ![t] = [Thread("scanned") EXCEPT
                                            !.paths = watcher.watch_paths]]
    /\ UNCHANGED <<watcher, fs, emitted, last_call, returned>>
    /\ WatchUnchanged

\* _watch_loop: the next path is scanned, or the loop starts again
PollNext(t) ==
    /\ threads[t].pc = "scanned"
    /\ t # Caller
    /\ IF threads[t].paths = {}
       THEN threads' = [threads EXCEPT ![t] = Thread("wait")]
       ELSE \E path \in threads[t].paths :
               threads' = [threads EXCEPT ![t] = [Thread("list") EXCEPT
                                                     !.directory = path,
                                                     !.paths = threads[t].paths \ {path}]]
    /\ UNCHANGED <<watcher, fs, emitted, last_call, returned>>
    /\ WatchUnchanged

\* a new watcher, a caller, no polling thread, and directories in which a
\* markdown file may already be
InitWatch ==
    /\ Constructed
    /\ NoParsing
    /\ NoAssembly /\ NoRequest
    /\ watcher = NewWatcher
    /\ fs \in [WatchedFiles -> {Absent, [exists |-> TRUE, mtime |-> 1, checksum |-> 1]}]
    /\ fs[CHOOSE file_path \in WatchedFiles : file_path.suffix # ".md"] = Absent
    /\ threads = [t \in {Caller} \cup Range(Pollers) |->
                     IF t = Caller THEN Thread("idle") ELSE Thread("unstarted")]
    /\ emitted = <<>>

ThreadIds == {Caller} \cup Range(Pollers)

NextWatch ==
    \/ \E path \in Directories \cup {MissingPath} : StartWatching(path)
    \/ StartWatchingEnd
    \/ StopWatching
    \/ StopWatchingEnd
    \/ \E t \in ThreadIds : ScanList(t)
    \/ \E t \in ThreadIds, file_path \in MarkdownFiles : ScanFile(t, file_path)
    \/ \E t \in ThreadIds : ScanGone(t)
    \/ \E t \in ThreadIds, file_path \in MarkdownFiles : ScanForget(t, file_path)
    \/ \E t \in ThreadIds : EmitEvent(t)
    \/ \E t \in ThreadIds : ScanEnd(t)
    \/ \E t \in Range(Pollers) : PollWait(t)
    \/ \E t \in Range(Pollers) : PollCopy(t)
    \/ \E t \in Range(Pollers) : PollNext(t)
    \/ \E file_path \in MarkdownFiles :
          WriteFile(file_path, [exists |-> TRUE, mtime |-> 1, checksum |-> 1])
    \/ \E file_path \in MarkdownFiles : DeleteFile(file_path)

SpecWatch == InitWatch /\ [][NextWatch]_vars

----------------------------------------------------------------------------
(* PrivilegedRequest *)

\* Status.value of the members of the request Status
RequestPending == "pending"
RequestApproved == "approved"
RequestDenied == "denied"
RequestRunning == "running"
RequestCompleted == "completed"
RequestFailed == "failed"

RequestStatuses ==
    {RequestPending, RequestApproved, RequestDenied, RequestRunning, RequestCompleted,
     RequestFailed}

\* PrivilegedRequest(...) with __post_init__: the request, or the ValueError
\* raised; updated_at counts the updates since the request was made
PrivilegedRequest(request_id, title, reason, commands, verification, status) ==
    IF request_id = <<>> THEN Raise("ValueError")
    ELSE IF ~StartsWith(request_id, <<"P", "R", ":">>) THEN Raise("ValueError")
    ELSE IF title = <<>> THEN Raise("ValueError")
    ELSE IF reason = <<>> THEN Raise("ValueError")
    ELSE Return([request_id |-> request_id, title |-> title, reason |-> reason,
                 commands |-> commands, verification |-> verification,
                 status |-> status, updated_at |-> 0, result |-> <<>>])

\* the status set by a lifecycle call, with updated_at
Transition(R, status) ==
    [R EXCEPT !.status = status, !.updated_at = @ + 1]

\* PrivilegedRequest.approve
approve(R) ==
    IF R.status # RequestPending
    THEN [request |-> R, returned |-> Raise("ValueError")]
    ELSE [request |-> Transition(R, RequestApproved), returned |-> Return(None)]

\* deny with no look at the status
deny_in_any_status(R) ==
    [request |-> Transition(R, RequestDenied), returned |-> Return(None)]

\* PrivilegedRequest.deny
deny(R) ==
    IF R.status \notin {RequestPending, RequestApproved}
    THEN [request |-> R, returned |-> Raise("ValueError")]
    ELSE [request |-> Transition(R, RequestDenied), returned |-> Return(None)]

\* PrivilegedRequest.start_execution
start_execution(R) ==
    IF R.status # RequestApproved
    THEN [request |-> R, returned |-> Raise("ValueError")]
    ELSE [request |-> Transition(R, RequestRunning), returned |-> Return(None)]

\* PrivilegedRequest.complete_execution
complete_execution(R, results) ==
    IF R.status # RequestRunning
    THEN [request |-> R, returned |-> Raise("ValueError")]
    ELSE [request |-> Transition([R EXCEPT !.result = results], RequestCompleted),
          returned |-> Return(None)]

\* PrivilegedRequest.fail_execution
fail_execution(R, results) ==
    IF R.status # RequestRunning
    THEN [request |-> R, returned |-> Raise("ValueError")]
    ELSE [request |-> Transition([R EXCEPT !.result = results], RequestFailed),
          returned |-> Return(None)]

\* PrivilegedRequest.add_command, for a list of strings
add_command(R, command) ==
    IF command = <<>>
    THEN [request |-> R, returned |-> Raise("ValueError")]
    ELSE [request |-> [R EXCEPT !.commands = Append(@, command)], returned |-> Return(None)]

\* PrivilegedRequest.add_verification, for a list of strings
add_verification(R, verification) ==
    IF verification = <<>>
    THEN [request |-> R, returned |-> Raise("ValueError")]
    ELSE [request |-> [R EXCEPT !.verification = Append(@, verification)],
          returned |-> Return(None)]

----------------------------------------------------------------------------
(* The request as a state machine: one request, any call at any time *)

\* commands, and verification commands, of a request
MaxCommands == 2

\* argv arrays, the empty one among them
Commands == {<<>>, <<"ls">>, <<"rm", "x">>}

\* the results an execution hands over
CommandResults ==
    {<<>>, <<[command |-> <<"ls">>, exit_code |-> 0]>>,
     <<[command |-> <<"ls">>, exit_code |-> 1]>>}

\* a call on the request: the request and what the call returned
RequestCall(op, arg, D) ==
    /\ request' = D.request
    /\ returned' = D.returned
    /\ last_call' = Call(op, arg, {})
    /\ UNCHANGED <<indexVars, cyclesVars, parserVars, assemblyVars, watcherVars>>

Approve == RequestCall("approve", <<>>, approve(request))

Deny == RequestCall("deny", <<>>, deny(request))

StartExecution == RequestCall("start_execution", <<>>, start_execution(request))

CompleteExecution(results) ==
    RequestCall("complete_execution", results, complete_execution(request, results))

FailExecution(results) ==
    RequestCall("fail_execution", results, fail_execution(request, results))

AddCommand(command) ==
    /\ Len(request.commands) < MaxCommands
    /\ RequestCall("add_command", command, add_command(request, command))

AddVerification(verification) ==
    /\ Len(request.verification) < MaxCommands
    /\ RequestCall("add_verification", verification,
                   add_verification(request, verification))

\* a request as it is made, pending, or loaded in any status
InitRequest ==
    /\ Constructed
    /\ NoParsing
    /\ NoAssembly /\ NoWatching
    /\ \E status \in RequestStatuses, commands \in {<<>>, << <<"ls">> >>} :
          \E D \in {PrivilegedRequest(<<"P", "R", ":", "1">>, <<"t">>, <<"r">>, commands,
                                      <<>>, status)} :
             /\ ~IsRaised(D)
             /\ request = D.value

NextRequest ==
    \/ Approve
    \/ Deny
    \/ StartExecution
    \/ \E results \in CommandResults : CompleteExecution(results)
    \/ \E results \in CommandResults : FailExecution(results)
    \/ \E command \in Commands : AddCommand(command)
    \/ \E verification \in Commands : AddVerification(verification)

SpecRequest == InitRequest /\ [][NextRequest]_vars

----------------------------------------------------------------------------
(* Claims about the body extractor (SpecBody) *)

\* the lines of the document, numbered from 0
DocumentLines == 0..(Len(SplitLines(document)) - 1)

\* the lines of a body range [start_line, end_line)
RangeLines(body) == body.start_line..(body.end_line - 1)

\* the heading lines and the line ranges of a list returned by
\* extract_body_ranges, one set of lines per heading and one per range
Pieces(pairs) ==
    [i \in 1..(2 * Len(pairs)) |->
        IF i <= Len(pairs) THEN {pairs[i].heading.line_number}
        ELSE RangeLines(pairs[i - Len(pairs)].body)]

\* no line is in two of the pieces
Disjoint(pieces) ==
    \A i \in DOMAIN pieces, j \in DOMAIN pieces :
        i # j => pieces[i] \cap pieces[j] = {}

\* C11 (as claimed): the heading lines and the body ranges returned by
\* extract_body_ranges cover every line of the document exactly once
C11_CoverEveryLine ==
    (last_call.op = "extract_body_ranges" /\ ~IsRaised(returned)) =>
        /\ UNION Range(Pieces(returned.value)) = DocumentLines
        /\ Disjoint(Pieces(returned.value))

\* C11 (amended): the heading lines and the body ranges cover every line from
\* the first heading to the end of the document exactly once, and no line
\* before the first heading (no line at all when there is no heading)
C11_CoverFromFirstHeading ==
    (last_call.op = "extract_body_ranges" /\ ~IsRaised(returned)) =>
        /\ UNION Range(Pieces(returned.value)) =
              {n \in DocumentLines :
                  \E m \in DocumentLines :
                      m <= n /\ HeadingMatch(SplitLines(document)[m + 1])}
        /\ Disjoint(Pieces(returned.value))

\* C11 witness: extract_body_ranges returned a heading with text before it
\* and a body of one line
C11_Witness ==
    /\ last_call.op = "extract_body_ranges"
    /\ ~IsRaised(returned)
    /\ Len(returned.value) = 1
    /\ returned.value[1].heading.line_number > 0
    /\ returned.value[1].body.line_count > 0

RoundTrip(heading_line, new_content, updated) ==
    LET before    == extract_single_body(document, heading_line).returned.value
        again     == extract_single_body(updated, heading_line).returned
        old_lines == SplitLines(document)
        new_lines == SplitLines(updated)
        grown     == Len(new_lines) - Len(old_lines)
    IN  /\ ~IsRaised(again)
        /\ again.value.stripped_content = Strip(new_content)
        /\ Slice(new_lines, 0, before.start_line) = Slice(old_lines, 0, before.start_line)
        /\ Slice(new_lines, before.end_line + grown, Len(new_lines)) =
              Slice(old_lines, before.end_line, Len(old_lines))

\* C13 (as claimed): for any heading line and any replacement body, the body
\* extracted again from the updated text is the replacement body, trimmed,
\* and the lines before the body range and from its end on are the original
C13_UpdateRoundTrip ==
    (last_call.op = "extract_and_update_content" /\ ~IsRaised(returned)) =>
        RoundTrip(last_call.arg[1], last_call.arg[2], returned.value)

\* C13 (amended): the same for every replacement body none of whose lines is
\* a heading
C13_UpdateRoundTripNoHeading ==
    (/\ last_call.op = "extract_and_update_content"
     /\ ~IsRaised(returned)
     /\ \A i \in DOMAIN SplitLines(last_call.arg[2]) :
           ~HeadingMatch(SplitLines(last_call.arg[2])[i])) =>
        RoundTrip(last_call.arg[1], last_call.arg[2], returned.value)

\* C13 witness: a body of one line or more, followed by another heading, was
\* replaced by two lines
C13_Witness ==
    /\ last_call.op = "extract_and_update_content"
    /\ ~IsRaised(returned)
    /\ Len(SplitLines(last_call.arg[2])) = 2
    /\ LET before == extract_single_body(document, last_call.arg[1]).returned.value
       IN  /\ before.line_count > 0
           /\ before.end_line < Len(SplitLines(document))

----------------------------------------------------------------------------
(* Claims about heading ID extraction (SpecHeadings) *)

\* _extract_id_from_heading was called on the heading text held
Extracted == last_call.op = "_extract_id_from_heading"

\* the heading text is this marker, this suffix and this tail
Spelled(marker, suffix, tail) == document = marker \o suffix \o tail

\* tails after which an ID is complete: nothing, or whitespace and a title
CleanTails == { <<>>, <<" ", "x">>, <<" ", "-", " ", "x">>, <<"\t", "x">> }

\* C14: a candidate whose suffix starts with a digit is rejected when the
\* marker is not T: or TP: (the heading has no ID), and a digit-leading suffix
\* is accepted for T: and TP:
C14_DigitLeadingSuffix ==
    Extracted =>
        \A marker \in SpelledMarkers, suffix \in HeadingSuffixes, tail \in HeadingTails :
            (Spelled(marker, suffix, tail) /\ suffix[1] \in DigitChars) =>
                /\ Lower(marker) \notin { <<"t", ":">>, <<"t", "p", ":">> } =>
                      returned = NoId
                /\ (marker \in { <<"T", ":">>, <<"T", "P", ":">> } /\ tail \in CleanTails) =>
                      /\ returned # NoId
                      /\ returned[1].full_id = marker \o suffix

\* C14 witness: T: or TP: with a digit-leading suffix was extracted
C14_Witness ==
    /\ Extracted
    /\ returned # NoId
    /\ returned[1].suffix[1] \in DigitChars
    /\ returned[1].prefix \in { <<"T", ":">>, <<"T", "P", ":">> }

\* C15 (as claimed): a heading yields an ID only if the character right after
\* the ID is whitespace or '-', or the ID ends the heading text
C15_IdIsWholeToken ==
    (Extracted /\ returned # NoId) =>
        \/ Len(returned[1].full_id) = Len(document)
        \/ IsSpaceChar(document[Len(returned[1].full_id) + 1])
        \/ document[Len(returned[1].full_id) + 1] = "-"

\* the heading text with its marker in upper case
UpperMarker(heading_text) ==
    LET m == MarkerAt(heading_text, 1)
    IN  PrefixEnum(SubSeq(heading_text, 1, m)) \o SubSeq(heading_text, m + 1, Len(heading_text))

\* C16 (as claimed): a heading written with a lower-case marker is accepted
\* exactly when the same heading with the upper-case marker is, and the ID
\* extracted is the ID as written
C16_MarkerCaseInsensitive ==
    (Extracted /\ MarkerAt(document, 1) > 0) =>
        /\ (returned # NoId) <=>
              (extract_id_from_heading(UpperMarker(document), last_call.arg[1], 0,
                                       RawLine(last_call.arg[1], UpperMarker(document)))
                  # NoId)
        /\ returned # NoId => StartsWith(document, returned[1].full_id)

----------------------------------------------------------------------------
(* Claims about extract_ids_from_text (SpecIds) *)

\* the 1-based numbers of the lines of lines that are headings with an ID
LinesWithId(lines) == {k \in 1..Len(lines) : IdOfLine(lines, k - 1) # NoId}

\* the lines whose ID is also the ID of an earlier line
RepeatLines(lines) ==
    {k \in LinesWithId(lines) :
        \E j \in LinesWithId(lines) :
            j < k /\ IdOfLine(lines, j - 1)[1].full_id = IdOfLine(lines, k - 1)[1].full_id}

\* the i-th smallest member of a set of numbers
Nth(S, i) == CHOOSE k \in S : Cardinality({j \in S : j < k}) = i - 1

\* the outcome is every ID of the lines, in line order
EveryOccurrence(lines, outcome) ==
    /\ ~IsRaised(outcome)
    /\ Len(outcome.value) = Cardinality(LinesWithId(lines))
    /\ \A i \in 1..Len(outcome.value) :
          <<outcome.value[i]>> = IdOfLine(lines, Nth(LinesWithId(lines), i) - 1)

\* the outcome is the error naming the first repeated ID and its line
FirstRepeat(lines, outcome) ==
    LET first == Nth(RepeatLines(lines), 1)
    IN  /\ IsRaised(outcome)
        /\ outcome.raised = DuplicateId(IdOfLine(lines, first - 1)[1].full_id, first)

\* C17 (as claimed): with uniqueness enforced, a call on a text in which an ID
\* recurs raises the error naming that ID and the 1-based line of the first
\* heading that repeats an earlier one of the text; without enforcement a call
\* never raises and returns every occurrence in document order
C17_RaisesAtFirstRepeat ==
    last_call.op = "extract_ids_from_text" =>
        LET lines == SplitLines(last_call.arg[1])
        IN  IF parser.validate_uniqueness
            THEN RepeatLines(lines) # {} => FirstRepeat(lines, returned)
            ELSE EveryOccurrence(lines, returned)

\* C18 (as claimed): a call raises the duplicate error only for a text in
\* which an ID occurs twice, whatever the parser parsed before
C18_TrackerScopedToOnePass ==
    (last_call.op = "extract_ids_from_text" /\ IsRaised(returned)) =>
        RepeatLines(SplitLines(last_call.arg[1])) # {}

----------------------------------------------------------------------------
(* Claims about reference detection (SpecRefs) *)

\* detect_references_in_text was called on the body held
Detected == last_call.op = "detect_references_in_text"

\* the target IDs of a list of references
Targets(refs) == {refs[i].target_id : i \in 1..Len(refs)}

\* C19: no two references returned by detect_references_in_text have the same
\* target_id, and a target that occurs both in an explicit References list and
\* inline in the body is returned once, with reference_type explicit
C19_OncePerTargetExplicitFirst ==
    Detected =>
        /\ \A i, j \in 1..Len(returned) :
              returned[i].target_id = returned[j].target_id => i = j
        /\ \A target \in Targets(find_explicit_references(document))
                           \cap Targets(find_inline_references(document)) :
              \E i \in 1..Len(returned) :
                  /\ returned[i].target_id = target
                  /\ returned[i].reference_type = "explicit"

\* C19 witness: a target of an explicit list that is also named inline on
\* another line was returned
C19_Witness ==
    /\ Detected
    /\ \E i \in 1..Len(returned) :
          /\ returned[i].reference_type = "explicit"
          /\ \E k \in 1..Len(find_inline_references(document)) :
                /\ find_inline_references(document)[k].target_id = returned[i].target_id
                /\ find_inline_references(document)[k].line_number # returned[i].line_number

\* the lines with a colon added to each References heading that has none
WithColon(lines) ==
    [k \in 1..Len(lines) |->
        IF /\ RunLength(lines[k], 1, {"#"}) \in 1..MaxHeadingLevel
           /\ Lower(Strip(SubSeq(lines[k], RunLength(lines[k], 1, {"#"}) + 1,
                                 Len(lines[k]))))
                 \in {ReferenceWord, Append(ReferenceWord, "s")}
        THEN Append(lines[k], ":")
        ELSE lines[k]]

\* C20 (as claimed): the references detected in a body are the references
\* detected in the same body with the colon added to its References headings
C20_ColonOptional ==
    Detected =>
        returned = detect_references_in_text(JoinLines(WithColon(SplitLines(document))))

----------------------------------------------------------------------------
(* Claims about assembly (SpecParse) *)

Parsed == last_call.op = "parse_markdown"

\* the 0-based numbers of the heading lines of a text, in document order
HeadingLineNumbers(markdown_text) ==
    LET lines == SplitLines(markdown_text)
    IN  SelectSeq([i \in 1..Len(lines) |-> i - 1], LAMBDA n : HeadingMatch(lines[n + 1]))

\* 'NoID_Line' followed by a line number below ten
SyntheticId(line_number) ==
    <<"N", "o", "I", "D", "_", "L", "i", "n", "e">> \o <<DecimalDigits[line_number + 1]>>

\* C21: parse_markdown never fails on a text and returns one element per
\* heading line, in document order; a heading from which no ID is extracted
\* yields kind Other and the ID NoID_Line<0-based line number>, so the synthetic
\* IDs of one text are pairwise distinct; a heading with an ID yields an
\* element with that ID, also when an earlier heading has the same ID
C21_OneElementPerHeading ==
    Parsed =>
        /\ ~IsRaised(returned)
        /\ LET lines == SplitLines(document)
               nums  == HeadingLineNumbers(document)
               es    == returned.value
           IN  /\ Len(es) = Len(nums)
               /\ \A k \in 1..Len(nums) :
                     /\ es[k].heading_level = HeadingLevel(lines[nums[k] + 1])
                     /\ IF IdOfLine(lines, nums[k]) = NoId
                        THEN es[k].kind = KindOther /\ es[k].id = SyntheticId(nums[k])
                        ELSE es[k].id = IdOfLine(lines, nums[k])[1].full_id
               /\ \A j, k \in 1..Len(nums) :
                     /\ IdOfLine(lines, nums[j]) = NoId
                     /\ IdOfLine(lines, nums[k]) = NoId
                     /\ es[j].id = es[k].id
                     => j = k

\* a text of two headings without ID was parsed into two elements with
\* different synthetic IDs
C21_Witness ==
    /\ Parsed
    /\ ~IsRaised(returned)
    /\ Len(returned.value) = 2
    /\ returned.value[1].id = SyntheticId(0)
    /\ returned.value[2].id = SyntheticId(1)
    /\ returned.value[1].kind = KindOther

\* a text with the same ID in two headings was parsed into two elements
C21_DuplicatesKept ==
    /\ Parsed
    /\ ~IsRaised(returned)
    /\ Len(returned.value) = 2
    /\ returned.value[1].id = <<"R", ":", "a">>
    /\ returned.value[2].id = <<"R", ":", "a">>

\* the heading text without a leading '<ID> - ', for the ID extracted from it;
\* the whole heading text when no ID is extracted or no dash follows the ID
TitleWithoutId(heading_text) ==
    LET found  == extract_id_from_heading(heading_text, 1, 0, heading_text)
        after  == Len(found[1].full_id) + 1
        dash   == after + RunLength(heading_text, after, SpaceChars)
        rest   == Strip(SubSeq(heading_text, dash + 1, Len(heading_text)))
    IN  IF found = NoId THEN heading_text
        ELSE IF dash <= Len(heading_text) /\ heading_text[dash] = "-" /\ rest # <<>>
        THEN rest
        ELSE heading_text

\* C22: the title of an assembled element is the heading text with the leading
\* '<ID> - ' removed when, and only when, an ID was extracted from the heading
\* (the whole ID, hyphens of its suffix included); otherwise it is the whole
\* heading text
C22_TitleIsHeadingWithoutId ==
    Parsed /\ ~IsRaised(returned) =>
        LET lines == SplitLines(document)
            nums  == HeadingLineNumbers(document)
        IN  \A k \in 1..Len(returned.value) :
               returned.value[k].title =
                   TitleWithoutId(Strip(HeadingText(lines[nums[k] + 1])))

\* text, lower-cased, contains one of the words
ContainsAny(text, words) ==
    \E w \in words : Contains(Lower(text), w)

DoneWords ==
    { <<"c", "o", "m", "p", "l", "e", "t", "e", "d">>, <<"d", "o", "n", "e">>,
      <<"f", "i", "n", "i", "s", "h", "e", "d">> }

BusyWords ==
    { <<"i", "n", " ", "p", "r", "o", "g", "r", "e", "s", "s">>,
      <<"w", "o", "r", "k", "i", "n", "g">>,
      <<"i", "m", "p", "l", "e", "m", "e", "n", "t", "i", "n", "g">> }

\* C23: the status of an assembled Task element is completed when its body,
\* lower-cased, contains 'completed', 'done' or 'finished' (an in-progress word
\* beside it changes nothing), otherwise in_progress when it contains
\* 'in progress', 'working' or 'implementing', otherwise pending; an assembled
\* element of another kind has no status
C23_TaskStatusFromBody ==
    Parsed /\ ~IsRaised(returned) =>
        \A k \in 1..Len(returned.value) :
            LET e == returned.value[k]
            IN  IF e.kind = KindTask
                THEN e.status = IF ContainsAny(e.body_markdown, DoneWords) THEN StatusCompleted
                                ELSE IF ContainsAny(e.body_markdown, BusyWords)
                                THEN StatusInProgress
                                ELSE StatusPending
                ELSE e.status = None

\* a task whose body holds an in-progress word and a completed word was
\* assembled as completed
C23_Witness ==
    /\ Parsed
    /\ ~IsRaised(returned)
    /\ \E k \in 1..Len(returned.value) :
          /\ returned.value[k].kind = KindTask
          /\ ContainsAny(returned.value[k].body_markdown, DoneWords)
          /\ ContainsAny(returned.value[k].body_markdown, BusyWords)
          /\ returned.value[k].status = StatusCompleted

----------------------------------------------------------------------------
(* Claims about serialization (SpecDict) *)

\* C24: from_dict of the dictionary to_dict made of a valid element equals the
\* element in every field, and the dictionary has a status key exactly when
\* the element is of kind Task
C24_RoundTrip ==
    /\ last_call.op = "from_dict" =>
          /\ ~IsRaised(returned)
          /\ \A field \in {"id", "kind", "title", "file", "heading_level", "anchor",
                           "body_markdown", "refs", "backlinks", "status"} :
                returned.value[field] = doc_element[field]
    /\ last_call.op \in {"to_dict", "from_dict"} =>
          ("status" \in DOMAIN data <=> doc_element.kind = KindTask)

\* a task in progress with a reference and a backlink was written and read back
C24_Witness ==
    /\ last_call.op = "from_dict"
    /\ doc_element.kind = KindTask
    /\ doc_element.status = StatusInProgress
    /\ data.status = "in_progress"
    /\ data.kind = "Task"
    /\ Len(doc_element.refs) > 0
    /\ Len(doc_element.backlinks) > 0

----------------------------------------------------------------------------
(* Claims about the backlinks field (Spec) *)

\* C25: in every index state the backlinks field of the element get_element
\* returns for an ID holds exactly the IDs get_backlinks returns for it
C25_BacklinksFieldPopulated ==
    \A element_id \in DOMAIN elements :
        Range(get_element(Self, element_id).backlinks) = get_backlinks(Self, element_id)

----------------------------------------------------------------------------
(* Claims about scanning (SpecScan) *)

\* the number of events of a type for a file in a list of events
EventCount(events, event_type, file_path) ==
    Cardinality({i \in 1..Len(events) : events[i] = FileSystemEvent(event_type, file_path)})

----------------------------------------------------------------------------
(* Claims about watching (SpecWatch) *)

\* C26: start_watching returns for every directory, also one that holds a
\* markdown file already: the caller is never inside start_watching waiting
\* in _emit_event for the lock it holds itself, which only its own return
\* releases
C26_StartWatchingReturns ==
    ~(/\ threads[Caller].call = "start_watching"
      /\ threads[Caller].pc = "emit"
      /\ watcher.lock = Caller)

\* C28: with several watched directories, the polling thread scanning one
\* directory makes no event for a markdown file of another watched directory
\* that exists with the state recorded for it
C28_NoEventForFileElsewhere ==
    \A t \in Range(Pollers) :
        threads[t].pc = "emit" =>
            LET file_path == threads[t].event[1].event.file_path
            IN  ~(/\ file_path.dir # threads[t].directory
                  /\ file_path.dir \in watcher.watch_paths
                  /\ fs[file_path].exists
                  /\ file_path \in DOMAIN watcher.file_states
                  /\ watcher.file_states[file_path] = get_file_state(fs, file_path))

----------------------------------------------------------------------------
(* Claims about the request lifecycle (SpecRequest) *)

LifecycleCalls ==
    {"approve", "deny", "start_execution", "complete_execution", "fail_execution"}

\* the status changes of the lifecycle: from, call, to
LifecycleChanges ==
    { <<"pending", "approve", "approved">>,
      <<"pending", "deny", "denied">>,
      <<"approved", "deny", "denied">>,
      <<"approved", "start_execution", "running">>,
      <<"running", "complete_execution", "completed">>,
      <<"running", "fail_execution", "failed">> }

\* C29: the status of a request changes only along pending -> approved
\* (approve), pending or approved -> denied (deny), approved -> running
\* (start_execution), running -> completed or failed (complete_execution,
\* fail_execution); every other lifecycle call raises ValueError and leaves
\* status and result as they were, so denied, completed and failed are left by
\* no call
C29_Lifecycle ==
    [][/\ request'.status # request.status =>
             <<request.status, last_call'.op, request'.status>> \in LifecycleChanges
       /\ last_call'.op \in LifecycleCalls =>
             IF \E change \in LifecycleChanges :
                   change[1] = request.status /\ change[2] = last_call'.op
             THEN /\ <<request.status, last_call'.op, request'.status>> \in LifecycleChanges
                  /\ ~IsRaised(returned')
             ELSE /\ returned' = Raise("ValueError")
                  /\ request'.status = request.status
                  /\ request'.result = request.result
       /\ request.status \in {"denied", "completed", "failed"} =>
             request'.status = request.status]_vars

\* approve was refused on a request that completed with a result
C29_Witness ==
    /\ last_call.op = "approve"
    /\ IsRaised(returned)
    /\ request.status = "completed"
    /\ request.result # <<>>
    /\ request.updated_at = 3

----------------------------------------------------------------------------
(* Claims about prefix search (SpecPrefix) *)

\* C30: for every indexed element E and every proper prefix of E.id of at
\* least two characters, search(prefix) with a limit no smaller than the
\* number of matches returns an entry for E with match_type id_partial and a
\* score strictly between 0 and 1, also when the suffix of the ID holds a
\* hyphen or an underscore
C30_PrefixFindsElement ==
    last_call.op = "search" =>
        \A element_id \in DOMAIN elements :
            last_call.arg[1] \in ProperPrefixes(element_id) =>
                \E i \in 1..Len(returned) :
                    /\ returned[i].element_id = element_id
                    /\ returned[i].match_type = "id_partial"
                    /\ ScoreLess(Score(0, 1), returned[i].match_score)
                    /\ ScoreLess(returned[i].match_score, Score(1, 1))

----------------------------------------------------------------------------
(* Claims about the title tiers of search (SpecTitles) *)

\* C31: in every search result an entry with match_type title_exact has a
\* score greater than or equal to the score of every title_partial entry
C31_TitleExactAbovePartial ==
    last_call.op = "search" =>
        \A i, j \in 1..Len(returned) :
            (returned[i].match_type = "title_exact"
                /\ returned[j].match_type = "title_partial") =>
                ~ScoreLess(returned[i].match_score, returned[j].match_score)

----------------------------------------------------------------------------
(* Claims about the search structures (SpecSearch) *)

\* the element IDs stored in the three search structures
StoredIds ==
    {id_index[key] : key \in DOMAIN id_index}
    \cup UNION {partial_id_index[key] : key \in DOMAIN partial_id_index}
    \cup UNION {title_index[word] : word \in DOMAIN title_index}

\* C32: after every sequence of add_element, remove_element and clear every
\* element ID stored in the exact-ID, prefix and title-word structures is the
\* ID of an element in the index, and every entry search returns is for an
\* indexed element, with the title it has now
C32_NoStaleSearchEntries ==
    /\ StoredIds \subseteq DOMAIN elements
    /\ last_call.op = "search" =>
          \A i \in 1..Len(returned) :
              /\ returned[i].element_id \in DOMAIN elements
              /\ returned[i].element_title = elements[returned[i].element_id].title

\* C32 witness: an element was removed while another element that shares its
\* title words and ID prefixes stays indexed
C32_Witness ==
    /\ last_call.op = "remove_element"
    /\ returned = TRUE
    /\ IdLonger \in DOMAIN elements
    /\ last_call.arg = IdUpper
    /\ DOMAIN title_index # {}
    /\ Lower(IdUpper) \in DOMAIN partial_id_index

----------------------------------------------------------------------------
(* Claims about get_statistics (Spec) *)

\* C33: in every reachable state of the index get_statistics agrees with the
\* other queries: total_elements is get_element_count, total_references is
\* get_reference_count and is total_backlinks, orphaned_references is the
\* number of broken_references of validate_references, elements_without_refs
\* is the number of indexed elements whose get_references is empty
C33_StatisticsConsistent ==
    LET stats == get_statistics(Self)
    IN  /\ stats.total_elements = get_element_count(Self)
        /\ stats.total_references = get_reference_count(Self)
        /\ stats.total_references = stats.total_backlinks
        /\ stats.orphaned_references = Cardinality(broken_references(Self))
        /\ stats.elements_without_refs =
              Cardinality({e \in DOMAIN elements : get_references(Self, e) = {}})

\* C33 witness: after a removal the index holds an element without
\* references and a reference to an ID that is not indexed
C33_Witness ==
    /\ last_call.op = "remove_element"
    /\ get_statistics(Self).orphaned_references > 0
    /\ get_statistics(Self).elements_without_refs > 0
    /\ get_statistics(Self).total_backlinks > 1

----------------------------------------------------------------------------
(* Claims about the order of additions (SpecAdds) *)

\* the index after the indexed elements were added to a new index in an order
AddedInOrder(order) ==
    AddAll(NewIndex, [i \in 1..Len(order) |-> elements[order[i]]])

\* C34: adding elements of pairwise distinct IDs to an empty index in any order
\* gives the same get_references and get_backlinks for every ID, and an
\* element added before the element it references is in the backlinks of
\* that target once the target is added
C34_OrderOfAdditions ==
    /\ \A order \in Orders(DOMAIN elements) :
          \A element_id \in ElementIds :
              /\ get_references(AddedInOrder(order), element_id)
                    = get_references(Self, element_id)
              /\ get_backlinks(AddedInOrder(order), element_id)
                    = get_backlinks(Self, element_id)
    /\ \A element_id \in DOMAIN elements, ref_id \in DOMAIN elements :
          ref_id \in Range(elements[element_id].refs) =>
              element_id \in get_backlinks(Self, ref_id)

\* C34 witness: the last of three elements added is referenced by an element
\* added before it
C34_Witness ==
    /\ last_call.op = "add_element"
    /\ last_call.before = 2
    /\ last_call.arg.id = IdTask
    /\ IdUpper \in DOMAIN elements
    /\ IdTask \in Range(elements[IdUpper].refs)
    /\ IdUpper \in get_backlinks(Self, IdTask)

----------------------------------------------------------------------------
(* Claims about the chains of find_circular_references (SpecCycles) *)

\* a chain that starts and ends with the same ID, each consecutive pair a
\* reference between two indexed elements
ClosedChain(chain) ==
    /\ Len(chain) >= 2
    /\ chain[1] = chain[Len(chain)]
    /\ \A k \in 1..(Len(chain) - 1) :
          <<chain[k], chain[k + 1]>> \in ExistingTargetEdges

\* C35: find_circular_references returns a non-empty list exactly when the
\* references between indexed elements hold a cycle (a self-reference is
\* one), and every chain returned starts and ends with the same ID and
\* follows references between indexed elements only
C35_ChainsAreCycles ==
    pc = "done" =>
        /\ (returned # <<>>) <=> ~Acyclic(DOMAIN elements, ExistingTargetEdges)
        /\ \A i \in 1..Len(returned) : ClosedChain(returned[i])

\* C35 witness: a chain of more than one element was returned, entered
\* through an element that is not on it, on an index that also holds a
\* reference to an ID that is not indexed
C35_Witness ==
    /\ pc = "done"
    /\ \E i \in 1..Len(returned) : Len(returned[i]) >= 3
    /\ DOMAIN elements \ UNION {Range(returned[i]) : i \in 1..Len(returned)} # {}
    /\ \E element_id \in DOMAIN references :
          references[element_id] \ DOMAIN elements # {}

----------------------------------------------------------------------------
(* Claims about removing every element (Spec) *)

\* the last indexed element was removed by the call
RemovedLast ==
    /\ last_call.op = "remove_element"
    /\ last_call.before = 1
    /\ DOMAIN elements = {}

\* C36: once every indexed element was removed with remove_element, in any
\* order, the index is in the state clear leaves: the elements, the file
\* buckets, both adjacency maps and the three search structures are empty
C36_RemovingAllIsClear ==
    RemovedLast => /\ Self = clear(Self)
                   /\ Self = NewIndex

\* C36 witness: the last element was removed from the index
C36_Witness ==
    /\ RemovedLast
    /\ returned = TRUE
    /\ last_call.arg = IdTask

----------------------------------------------------------------------------
(* Claims about the watcher after stop_watching (SpecWatch) *)

\* stop_watching has returned and start_watching was not called since
StopReturned == last_call = Call("stop_watching", <<>>, {"returned"})

\* C37: once stop_watching has returned, and until start_watching is called
\* again, no event reaches the handlers and the file states stay empty, also
\* when the polling thread was in a scan when stop_watching was called
C37_StoppedStaysStopped ==
    [][/\ StopReturned => emitted' = emitted
       /\ StopReturned' => watcher'.file_states = EmptyDict]_vars

----------------------------------------------------------------------------
(* Claims about the commands of a request that left pending (SpecRequest) *)

\* C38: once the request has left the pending state no call, add_command and
\* add_verification included, changes its commands or its verification
\* list: the commands that run are the commands that were approved
C38_CommandsFixedAfterPending ==
    [][request.status # RequestPending =>
          /\ request'.commands = request.commands
          /\ request'.verification = request.verification]_vars

====
